---- MODULE Spec2Model ----
(***************************************************************************)
(* XP calculator (src/src/app/page.tsx): the level curve, the seeded       *)
(* placement roller and the 365-day point simulation.                      *)
(*                                                                         *)
(* Numbers the program holds as IEEE doubles are held here as scaled       *)
(* integers: polynomial coefficients a, b, c in thousandths (CoefScale),   *)
(* the multiplier in hundredths (MultScale), probabilities, pseudo-random  *)
(* fractions and the daily variation in millionths (RollScale, VarScale),  *)
(* the seasonal multiplier in tenths (SeasonScale).  Math.sin is a table   *)
(* of the values the program computes (VariationTable for sin(day * 0.1),  *)
(* SinTable for frac(sin(seed) * 10000)), floored to millionths.  For      *)
(* every argument the model evaluates, the integer arithmetic below gives  *)
(* the same floor / round / comparison results as the double arithmetic.   *)
(***************************************************************************)
EXTENDS Integers, Sequences, FiniteSets, TLC

VARIABLES
  selectedProfile,            \* useState, line 72
  dailyGames,                 \* line 84
  weeklyGames,                \* line 85
  monthlyGames,               \* line 86
  firstPlacePointsPerDay,     \* line 89
  secondPlacePointsPerDay,    \* line 90
  thirdPlacePointsPerDay,     \* line 91
  participationPointsPerDay,  \* line 92
  polyA,                      \* line 95, thousandths
  polyB,                      \* line 96, thousandths
  polyC,                      \* line 97, thousandths
  polyMultiplier,             \* line 98, hundredths
  debouncedPolyA,             \* line 100, thousandths
  debouncedPolyB,             \* line 101, thousandths
  debouncedPolyC,             \* line 102, thousandths
  debouncedPolyMultiplier,    \* line 103, hundredths
  pc,                         \* position of the render: "idle", "loop" (the chartData day
                              \* loop), "done" (series computed), "weekly", "monthly" (the
                              \* marker loops), "rendered"
  day,                        \* last day the loop has processed (0 before the first)
  cumulativePoints,           \* line 197
  totalDailyPoints,           \* line 212, of the last processed day
  dailyPointsData,            \* line 198
  dailyLevelsData,            \* line 199
  labels,                     \* line 200: day of the year labelled, 0 for the empty label
  weekCount,                  \* line 202
  monthCount,                 \* line 203
  rolledGames,                \* the weekly and monthly games the day loop has rolled one by
                              \* one, in order (lines 230-237, 246-253): [cadence, day, gameIndex,
                              \* seed, placement, gamePoints]
  annotations,                \* line 329: the markers, by key
  markerDay,                  \* lines 360 and 390: day of the marker loops
  markerCount,                \* lines 359 and 389: weekCount, monthCount of the marker loops
  isCalculating,              \* line 78
  timeout,                    \* line 108: the handle of the last timer set, 0 before the
                              \* first; handles are given out in increasing order
  timeouts,                   \* the pending timers: the handle, the values the callback
                              \* captured and the milliseconds left, [id, a, b, c,
                              \* multiplier, remaining]
  chartInputs,                \* the values the last render computed chartData from
                              \* (lines 167-324, 123-129)
  edits,                      \* number of input events handled so far
  burstEdits,                 \* number of coefficient edits of the current burst: the
                              \* edits made since a timer was last set with none pending
  burstUpdates,               \* number of runs of the timer callback (lines 109-113) since
                              \* the current burst began
  call,                       \* the last call of a pure function: [fn, arg, profile, result]
  prevCall,                   \* the call before it
  levelScan                   \* the run of calculateLevelFromXP in progress (lines
                              \* 139-149): [pc, totalXP, level, xpUsed, iterations, result]

configVars == <<selectedProfile, dailyGames, weeklyGames, monthlyGames,
                firstPlacePointsPerDay, secondPlacePointsPerDay,
                thirdPlacePointsPerDay, participationPointsPerDay>>
curveVars == <<debouncedPolyA, debouncedPolyB, debouncedPolyC, debouncedPolyMultiplier>>
simVars == <<pc, day, cumulativePoints, totalDailyPoints, dailyPointsData,
             dailyLevelsData, labels, weekCount, monthCount, rolledGames, annotations,
             markerDay, markerCount>>
callVars == <<call, prevCall, levelScan>>
editVars == <<polyA, polyB, polyC, polyMultiplier>>
debounceVars == <<isCalculating, timeout, timeouts, chartInputs, edits, burstEdits,
                  burstUpdates>>
vars == <<configVars, curveVars, simVars, callVars, editVars, debounceVars>>

---------------------------------------------------------------------------
(* Bounds of the model *)

MaxLevel == 6
MaxXP == 16
MaxCoef == 2
MaxDailyGames == 1
MaxWeeklyGames == 2
MaxMonthlyGames == 2
MaxRollWeeks == 1
MaxEdits == 2
MaxGameCount == 8

(* Scales of the fixed-point numbers *)

CoefScale == 1000
MultScale == 100
RollScale == 1000000
VarScale == 1000000
SeasonScale == 10

(* Program constants *)

DaysInYear == 365
DebounceDelay == 300
WeeklyGamesInputMax == 50
MonthlyGamesInputMax == 20

---------------------------------------------------------------------------
(* Lines 30-61: the player profiles and their placement distributions. *)

PlayerProfile == {"wins-everything", "exceptional", "average", "looser"}

Placements == {"first", "second", "third", "participation"}

playerProfiles ==
  [p \in PlayerProfile |->
     CASE p = "wins-everything" ->
            [first |-> 1000000, second |-> 0, third |-> 0, participation |-> 0]
       [] p = "exceptional" ->
            [first |-> 500000, second |-> 250000, third |-> 250000, participation |-> 0]
       [] p = "average" ->
            [first |-> 200000, second |-> 200000, third |-> 300000, participation |-> 300000]
       [] p = "looser" ->
            [first |-> 0, second |-> 0, third |-> 0, participation |-> 1000000]]

(* Lines 64-68. *)
GAME_DURATIONS == [daily |-> 1, weekly |-> 7, monthly |-> 30]

(* Line 120 / 169: the distribution of the selected profile. *)
placementDistribution == playerProfiles[selectedProfile]

---------------------------------------------------------------------------
(* Math.floor of num / den and Math.round of num / den (round half up),    *)
(* for den > 0.                                                            *)

MathFloor(num, den) == num \div den

MathRound(num, den) == (2 * num + den) \div (2 * den)

Max(x, y) == IF x >= y THEN x ELSE y

---------------------------------------------------------------------------
(* Coefficient sets [a, b, c in thousandths, multiplier in hundredths]:    *)
(* the initial values (lines 95-103), the preset buttons (lines 983-1037)  *)
(* and whole-number values typed into the four inputs (lines 899-974).     *)

InitialCoefficients == [a |-> 35, b |-> 2500, c |-> 10000, multiplier |-> 50]

PresetCoefficients ==
  { [a |-> 65000, b |-> -165000, c |-> -6750000, multiplier |-> 82],
    [a |-> 10000, b |-> 50000, c |-> 100000, multiplier |-> 100],
    [a |-> 25000, b |-> 0, c |-> 0, multiplier |-> 100],
    [a |-> 0, b |-> 100000, c |-> 0, multiplier |-> 100],
    [a |-> 35, b |-> 2500, c |-> 10000, multiplier |-> 50] }

TypedCoefficients ==
  [a : {-CoefScale, 0, CoefScale},
   b : {k * CoefScale : k \in -MaxCoef..MaxCoef},
   c : {k * CoefScale : k \in -MaxCoef..MaxCoef},
   multiplier : {-MultScale, 0, MultScale \div 2, MultScale}]

CoefficientSets == {InitialCoefficients} \cup PresetCoefficients \cup TypedCoefficients

---------------------------------------------------------------------------
(* Lines 122-164: the level curve. *)

(* Mutant: the clamp to a minimum of 1 XP is missing. *)
calculateXPForLevelUnclamped(level) ==
  MathFloor(((debouncedPolyA * level * level) + (debouncedPolyB * level)
               + debouncedPolyC) * debouncedPolyMultiplier,
            CoefScale * MultScale)

(* Mutant: the product is rounded up, not down. *)
calculateXPForLevelCeiling(level) ==
  LET polynomialValue == (debouncedPolyA * level * level) + (debouncedPolyB * level)
                           + debouncedPolyC
      result == polynomialValue * debouncedPolyMultiplier
  IN  Max(1, 0 - MathFloor(0 - result, CoefScale * MultScale))

calculateXPForLevel(level) ==
  LET polynomialValue == (debouncedPolyA * level * level) + (debouncedPolyB * level)
                           + debouncedPolyC
      result == polynomialValue * debouncedPolyMultiplier
  IN  Max(1, MathFloor(result, CoefScale * MultScale))

RECURSIVE TotalXPLoop(_, _, _)
TotalXPLoop(level, totalXP, targetLevel) ==
  IF level <= targetLevel
    THEN TotalXPLoop(level + 1, totalXP + calculateXPForLevel(level), targetLevel)
    ELSE totalXP

(* Mutant: the loop starts at level 0. *)
calculateTotalXPToLevelFromZero(targetLevel) == TotalXPLoop(0, 0, targetLevel)

calculateTotalXPToLevel(targetLevel) == TotalXPLoop(1, 0, targetLevel)

RECURSIVE LevelLoop(_, _, _)
LevelLoop(level, xpUsed, totalXP) ==
  IF xpUsed + calculateXPForLevel(level) <= totalXP
    THEN LevelLoop(level + 1, xpUsed + calculateXPForLevel(level), totalXP)
    ELSE level - 1

(* Mutant: the loop's result is the level being worked on, not the last   *)
(* completed one.                                                          *)
calculateLevelFromXPCurrent(totalXP) == LevelLoop(1, 0, totalXP) + 1

(* Mutant: the loop stops when the XP used would equal the total. *)
RECURSIVE LevelLoopStrict(_, _, _)
LevelLoopStrict(level, xpUsed, totalXP) ==
  IF xpUsed + calculateXPForLevel(level) < totalXP
    THEN LevelLoopStrict(level + 1, xpUsed + calculateXPForLevel(level), totalXP)
    ELSE level - 1

calculateLevelFromXPStrict(totalXP) == LevelLoopStrict(1, 0, totalXP)

calculateLevelFromXP(totalXP) == LevelLoop(1, 0, totalXP)

(* Mutant: the XP needed is that of the level just completed, not of the  *)
(* next one.                                                               *)
calculateXPProgressOfCompleted(totalXP) ==
  LET currentLevel == calculateLevelFromXP(totalXP)
      xpUsedForCompletedLevels == calculateTotalXPToLevel(currentLevel)
      xpInLevel == totalXP - xpUsedForCompletedLevels
      xpNeededForNext == calculateXPForLevel(Max(1, currentLevel))
  IN  [currentLevel |-> currentLevel,
       xpInLevel |-> xpInLevel,
       xpNeededForNext |-> xpNeededForNext,
       progressPercent |-> [num |-> xpInLevel * 100, den |-> xpNeededForNext]]

calculateXPProgress(totalXP) ==
  LET currentLevel == calculateLevelFromXP(totalXP)
      xpUsedForCompletedLevels == calculateTotalXPToLevel(currentLevel)
      xpInLevel == totalXP - xpUsedForCompletedLevels
      xpNeededForNext == calculateXPForLevel(currentLevel + 1)
  IN  [currentLevel |-> currentLevel,
       xpInLevel |-> xpInLevel,
       xpNeededForNext |-> xpNeededForNext,
       progressPercent |-> [num |-> xpInLevel * 100, den |-> xpNeededForNext]]

---------------------------------------------------------------------------
(* Lines 171-195 (and, identically, 332-346): the seeded roller. *)

SinTable ==
  LET pairs == {
     <<-1003, 416009>>, <<-7, 134012>>, <<-1, 290151>>, <<0, 0>>, <<22, 486907>>, <<355, 698556>>,
     <<1001, 905975>>, <<1002, 665419>>, <<1003, 583990>>, <<1004, 55748>>, <<1005, 755097>>, <<1006, 77356>>,
     <<1007, 618662>>, <<1008, 833757>>, <<1009, 718407>>, <<1010, 428297>>, <<1011, 859504>>, <<1012, 81916>>,
     <<2001, 959401>>, <<2002, 369799>>, <<2003, 119745>>, <<2004, 799144>>, <<2005, 829199>>, <<2006, 701905>>,
     <<2007, 428796>>, <<2008, 300854>>, <<2009, 759900>>, <<2010, 360830>>, <<2011, 720243>>, <<2012, 863600>>,
     <<3001, 205869>>, <<3002, 994718>>, <<3003, 152902>>, <<3004, 265950>>, <<3005, 812529>>, <<3006, 804284>>,
     <<3007, 376858>>, <<3008, 86207>>, <<3009, 927110>>, <<3010, 756473>>, <<3011, 427132>>, <<3012, 889725>>,
     <<4001, 721371>>, <<4002, 990495>>, <<4003, 535065>>, <<4004, 935751>>, <<4005, 796787>>, <<4006, 784596>>,
     <<4007, 395787>>, <<4008, 707810>>, <<4009, 363554>>, <<4010, 151292>>, <<4011, 148294>>, <<4012, 923877>>,
     <<5001, 484310>>, <<5002, 786918>>, <<5003, 61679>>, <<5004, 245245>>, <<5005, 359916>>, <<5006, 672315>>,
     <<5007, 849447>>, <<5008, 716133>>, <<5009, 78293>>, <<5010, 316323>>, <<5011, 606674>>, <<5012, 97315>>,
     <<6001, 174698>>, <<6002, 185325>>, <<6003, 991077>>, <<6004, 936443>>, <<6005, 894588>>, <<6006, 495479>>,
     <<6007, 990439>>, <<6008, 255105>>, <<6009, 268339>>, <<6010, 403214>>, <<6011, 43846>>, <<6012, 527593>>,
     <<7001, 306600>>, <<7002, 878295>>, <<7003, 345705>>, <<7004, 36541>>, <<7005, 786216>>, <<7006, 364153>>,
     <<7007, 733425>>, <<7008, 882527>>, <<7009, 130162>>, <<7010, 333610>>, <<7011, 383296>>, <<7012, 42128>>,
     <<8001, 753613>>, <<8002, 417242>>, <<8003, 67260>>, <<8004, 858709>>, <<8005, 16290>>, <<8006, 569644>>,
     <<8007, 40806>>, <<8008, 603533>>, <<8009, 885871>>, <<8010, 259858>>, <<8011, 716672>>, <<8012, 103954>>,
     <<9001, 978733>>, <<9002, 951010>>, <<9003, 846666>>, <<9004, 127068>>, <<9005, 824800>>, <<9006, 628917>>,
     <<9007, 638816>>, <<9008, 615504>>, <<9009, 249806>>, <<9010, 819995>>, <<9011, 946039>>, <<9012, 623569>>,
     <<10001, 647255>>, <<10002, 880348>>, <<10003, 877786>>, <<10004, 564543>>, <<10005, 536504>>, <<10006, 51112>>,
     <<10007, 433064>>, <<10008, 441382>>, <<10009, 536901>>, <<10010, 249537>>, <<10011, 934863>>, <<10012, 68724>>,
     <<10100, 17083>>, <<10101, 916969>>, <<10102, 242773>>, <<10103, 790455>>, <<10104, 109861>>, <<10105, 409328>>,
     <<10106, 524672>>, <<10107, 74885>>, <<10200, 231460>>, <<10201, 6203>>, <<10202, 407292>>, <<10203, 818572>>,
     <<10204, 567335>>, <<10205, 880217>>, <<10206, 230874>>, <<10207, 246509>>, <<10300, 759347>>, <<10301, 760238>>,
     <<10302, 546014>>, <<10303, 693255>>, <<10304, 781696>>, <<10305, 544077>>, <<10306, 859555>>, <<10307, 350275>>,
     <<10400, 455557>>, <<10401, 421052>>, <<10402, 591937>>, <<10403, 535834>>, <<10404, 621127>>, <<10405, 159913>>,
     <<10406, 904355>>, <<10407, 966624>>, <<11001, 86486>>, <<11002, 450695>>, <<11003, 859085>>, <<11004, 657185>>,
     <<11005, 655251>>, <<11006, 244836>>, <<11007, 918489>>, <<11008, 51766>>, <<11009, 129783>>, <<11010, 587808>>,
     <<11011, 181212>>, <<11012, 91854>>, <<12001, 28870>>, <<12002, 783151>>, <<12003, 888633>>, <<12004, 265935>>,
     <<12005, 952914>>, <<12006, 760625>>, <<12007, 548407>>, <<12008, 705911>>, <<12009, 527321>>, <<12010, 343254>>,
     <<12011, 720411>>, <<12012, 500220>>, <<13001, 415927>>, <<13002, 132645>>, <<13003, 697858>>, <<13004, 455257>>,
     <<13005, 42833>>, <<13006, 209953>>, <<13007, 100770>>, <<13008, 703026>>, <<13009, 377563>>, <<13010, 813538>>,
     <<13011, 171095>>, <<13012, 871833>>, <<14001, 295211>>, <<14002, 765839>>, <<14003, 645769>>, <<14004, 835645>>,
     <<14005, 218718>>, <<14006, 440835>>, <<14007, 69280>>, <<14008, 108340>>, <<14009, 226909>>, <<14010, 813977>>,
     <<14011, 379862>>, <<14012, 840461>>, <<15001, 284954>>, <<15002, 414372>>, <<15003, 205033>>, <<15004, 756072>>,
     <<15005, 856124>>, <<15006, 585209>>, <<15007, 361401>>, <<15008, 813174>>, <<15009, 443823>>, <<15010, 265143>>,
     <<15011, 547588>>, <<15012, 546078>>, <<16001, 647079>>, <<16002, 212364>>, <<16003, 2314>>, <<16004, 480103>>,
     <<16005, 214736>>, <<16006, 964297>>, <<16007, 422058>>, <<16008, 70696>>, <<16009, 688824>>, <<16010, 81299>>,
     <<16011, 515231>>, <<16012, 992605>>, <<17001, 914358>>, <<17002, 136547>>, <<17003, 449590>>, <<17004, 926609>>,
     <<17005, 746433>>, <<17006, 900472>>, <<17007, 699760>>, <<17008, 809575>>, <<17009, 607891>>, <<17010, 537806>>,
     <<17011, 508037>>, <<17012, 16734>>, <<18001, 336552>>, <<18002, 904668>>, <<18003, 694417>>, <<18004, 539191>>,
     <<18005, 92615>>, <<18006, 331275>>, <<18007, 783477>>, <<18008, 295765>>, <<18009, 639698>>, <<18010, 383666>>,
     <<18011, 578949>>, <<18012, 309767>>, <<19001, 988577>>, <<19002, 496615>>, <<19003, 176047>>, <<19004, 840085>>,
     <<19005, 960595>>, <<19006, 763913>>, <<19007, 315312>>, <<19008, 851650>>, <<19009, 482320>>, <<19010, 869084>>,
     <<19011, 240019>>, <<19012, 626326>>, <<20001, 316533>>, <<20002, 492685>>, <<20003, 981993>>, <<20004, 578178>>,
     <<20005, 901460>>, <<20006, 838790>>, <<20007, 209228>>, <<20008, 670175>>, <<20009, 706960>>, <<20010, 753567>>,
     <<20011, 839622>>, <<20012, 692144>>, <<20100, 800609>>, <<20101, 204721>>, <<20102, 141705>>, <<20103, 677040>>,
     <<20104, 940073>>, <<20105, 265127>>, <<20106, 126558>>, <<20107, 271986>>, <<20200, 707111>>, <<20201, 399417>>,
     <<20202, 331965>>, <<20203, 924819>>, <<20204, 912158>>, <<20205, 47953>>, <<20206, 524282>>, <<20207, 593640>>,
     <<20300, 389645>>, <<20301, 687363>>, <<20302, 83622>>, <<20303, 700894>>, <<20304, 777738>>, <<20305, 222744>>,
     <<20306, 777219>>, <<20307, 389682>>, <<20400, 181753>>, <<20401, 133880>>, <<20402, 609898>>, <<20403, 9176>>,
     <<20404, 269810>>, <<20405, 393680>>, <<20406, 409739>>, <<20407, 542029>>, <<21001, 327116>>, <<21002, 355071>>,
     <<21003, 169584>>, <<21004, 343783>>, <<21005, 40206>>, <<21006, 752799>>, <<21007, 816843>>, <<21008, 911316>>,
     <<21009, 784925>>, <<21010, 729613>>, <<21011, 290009>>, <<21012, 394877>>, <<22001, 793786>>, <<22002, 715491>>,
     <<22003, 235534>>, <<22004, 95193>>, <<22005, 527500>>, <<22006, 795470>>, <<22007, 299930>>, <<22008, 264041>>,
     <<22009, 402821>>, <<22010, 689488>>, <<22011, 793125>>, <<22012, 180816>>, <<23001, 191707>>, <<23002, 718247>>,
     <<23003, 180886>>, <<23004, 583211>>, <<23005, 482819>>, <<23006, 689756>>, <<23007, 116347>>, <<23008, 961719>>,
     <<23009, 75878>>, <<23010, 291541>>, <<23011, 564742>>, <<23012, 236313>>, <<24001, 930244>>, <<24002, 475801>>,
     <<24003, 974515>>, <<24004, 759358>>, <<24005, 897041>>, <<24006, 262815>>, <<24007, 504656>>, <<24008, 634488>>,
     <<24009, 992018>>, <<24010, 511170>>, <<24011, 619011>>, <<24012, 434963>>, <<25001, 159706>>, <<25002, 760664>>,
     <<25003, 509344>>, <<25004, 737465>>, <<25005, 620007>>, <<25006, 125792>>, <<25007, 550504>>, <<25008, 510>>,
     <<25009, 949407>>, <<25010, 660913>>, <<25011, 918600>>, <<25012, 875263>>, <<26001, 5533>>, <<26002, 620907>>,
     <<26003, 26260>>, <<26004, 100136>>, <<26005, 915030>>, <<26006, 8862>>, <<26007, 426959>>, <<26008, 813320>>,
     <<26009, 180614>>, <<26010, 331663>>, <<26011, 116797>>, <<26012, 290005>>, <<27001, 986122>>, <<27002, 578348>>,
     <<27003, 611126>>, <<27004, 957953>>, <<27005, 194119>>, <<27006, 385213>>, <<27007, 41377>>, <<27008, 997773>>,
     <<27009, 540808>>, <<27010, 243540>>, <<27011, 590612>>, <<27012, 364138>>, <<28001, 208463>>, <<28002, 56681>>,
     <<28003, 335766>>, <<28004, 290323>>, <<28005, 992950>>, <<28006, 576694>>, <<28007, 933243>>, <<28008, 409331>>,
     <<28009, 286917>>, <<28010, 705987>>, <<28011, 19725>>, <<28012, 406420>>, <<29001, 336346>>, <<29002, 125235>>,
     <<29003, 480883>>, <<29004, 371597>>, <<29005, 367076>>, <<29006, 809196>>, <<29007, 797265>>, <<29008, 273508>>,
     <<29009, 804821>>, <<29010, 956036>>, <<29011, 22122>>, <<29012, 549753>>, <<30001, 398639>>, <<30002, 948443>>,
     <<30003, 646241>>, <<30004, 365049>>, <<30005, 449243>>, <<30006, 561478>>, <<30007, 225033>>, <<30008, 53714>>,
     <<30009, 331383>>, <<30010, 639770>>, <<30011, 713375>>, <<30012, 955245>>, <<30100, 578644>>, <<30101, 169876>>,
     <<30102, 165871>>, <<30103, 8840>>, <<30104, 433301>>, <<30105, 654081>>, <<30106, 702313>>, <<30107, 475028>>,
     <<30200, 115891>>, <<30201, 864725>>, <<30202, 757487>>, <<30203, 615544>>, <<30204, 484290>>, <<30205, 331473>>,
     <<30206, 925046>>, <<30207, 376256>>, <<30300, 201018>>, <<30301, 915179>>, <<30302, 777594>>, <<30303, 400406>>,
     <<30304, 866114>>, <<30305, 439955>>, <<30306, 38238>>, <<30307, 579324>>, <<30400, 506544>>, <<30401, 293126>>,
     <<30402, 684413>>, <<30403, 755714>>, <<30404, 574785>>, <<30405, 804692>>, <<30406, 431269>>, <<30407, 999644>>,
     <<31001, 874751>>, <<31002, 945543>>, <<31003, 527897>>, <<31004, 678564>>, <<31005, 555774>>, <<31006, 158331>>,
     <<31007, 617061>>, <<31008, 306570>>, <<31009, 268735>>, <<31010, 725154>>, <<31011, 346581>>, <<31012, 639028>>,
     <<32001, 401650>>, <<32002, 817689>>, <<32003, 324024>>, <<32004, 630995>>, <<32005, 85355>>, <<32006, 656936>>,
     <<32007, 44784>>, <<32008, 923284>>, <<32009, 437320>>, <<32010, 66152>>, <<32011, 855586>>, <<32012, 492408>>,
     <<33001, 201309>>, <<33002, 214302>>, <<33003, 635124>>, <<33004, 13159>>, <<33005, 332977>>, <<33006, 711476>>,
     <<33007, 622567>>, <<33008, 705114>>, <<33009, 938380>>, <<33010, 842689>>, <<33011, 329169>>, <<33012, 948194>>,
     <<34001, 180001>>, <<34002, 413393>>, <<34003, 943893>>, <<34004, 802279>>, <<34005, 474251>>, <<34006, 390603>>,
     <<34007, 386889>>, <<34008, 786181>>, <<34009, 550623>>, <<34010, 452921>>, <<34011, 590597>>, <<34012, 976304>>,
     <<35001, 808391>>, <<35002, 874807>>, <<35003, 219276>>, <<35004, 502746>>, <<35005, 256268>>, <<35006, 344209>>,
     <<35007, 431087>>, <<35008, 924971>>, <<35009, 983325>>, <<35010, 409041>>, <<35011, 50696>>, <<35012, 850462>>,
     <<36001, 798244>>, <<36002, 735641>>, <<36003, 968514>>, <<36004, 253269>>, <<36005, 441948>>, <<36006, 693369>>,
     <<36007, 906646>>, <<36008, 36260>>, <<36009, 587830>>, <<36010, 911344>>, <<36011, 445512>>, <<36012, 132474>>,
     <<37001, 500175>>, <<37002, 44899>>, <<37003, 420125>>, <<37004, 548382>>, <<37005, 392170>>, <<37006, 431934>>,
     <<37007, 723735>>, <<37008, 311716>>, <<37009, 645882>>, <<37010, 875561>>, <<37011, 696413>>, <<37012, 738526>>,
     <<38001, 906924>>, <<38002, 800138>>, <<38003, 535282>>, <<38004, 345623>>, <<38005, 432538>>, <<38006, 153815>>,
     <<38007, 765771>>, <<38008, 346234>>, <<38009, 54873>>, <<38010, 539962>>, <<38011, 589165>>, <<38012, 713226>>,
     <<39001, 441361>>, <<39002, 278006>>, <<39003, 370984>>, <<39004, 835628>>, <<39005, 430542>>, <<39006, 135254>>,
     <<39007, 108550>>, <<39008, 902088>>, <<39009, 479053>>, <<39010, 794540>>, <<39011, 940662>>, <<39012, 999532>>,
     <<40001, 655582>>, <<40002, 284758>>, <<40003, 563889>>, <<40004, 653864>>, <<40005, 605485>>, <<40006, 33139>>,
     <<40007, 340281>>, <<40008, 330252>>, <<40009, 233356>>, <<40010, 911270>>, <<40011, 47842>>, <<40012, 495344>>,
     <<40100, 717965>>, <<40101, 358399>>, <<40102, 735584>>, <<40103, 557706>>, <<40104, 5195>>, <<40105, 401790>>,
     <<40106, 196822>>, <<40107, 481244>>, <<40200, 276858>>, <<40201, 600836>>, <<40202, 723252>>, <<40203, 977320>>,
     <<40204, 977650>>, <<40205, 347984>>, <<40206, 2223>>, <<40207, 954086>>, <<40300, 759629>>, <<40301, 403049>>,
     <<40302, 91994>>, <<40303, 243734>>, <<40304, 28176>>, <<40305, 806486>>, <<40306, 328686>>, <<40307, 208182>>,
     <<40400, 902574>>, <<40401, 978719>>, <<40402, 349080>>, <<40403, 356376>>, <<40404, 157592>>, <<40405, 433583>>,
     <<40406, 259917>>, <<40407, 332717>>, <<41001, 902829>>, <<41002, 535576>>, <<41003, 919566>>, <<41004, 361712>>,
     <<41005, 224397>>, <<41006, 297014>>, <<41007, 910886>>, <<41008, 780653>>, <<41009, 672692>>, <<41010, 325855>>,
     <<41011, 883191>>, <<41012, 44612>>, <<42001, 664574>>, <<42002, 319200>>, <<42003, 588983>>, <<42004, 790737>>,
     <<42005, 704389>>, <<42006, 39173>>, <<42007, 307895>>, <<42008, 267813>>, <<42009, 8449>>, <<42010, 35741>>,
     <<42011, 358082>>, <<42012, 268856>>, <<43001, 940022>>, <<43002, 472018>>, <<43003, 844509>>, <<43004, 499095>>,
     <<43005, 534346>>, <<43006, 683057>>, <<43007, 734731>>, <<43008, 268820>>, <<43009, 102051>>, <<43010, 678165>>,
     <<43011, 354476>>, <<43012, 559190>>, <<44001, 195075>>, <<44002, 501923>>, <<44003, 622450>>, <<44004, 216785>>,
     <<44005, 770720>>, <<44006, 106734>>, <<44007, 278356>>, <<44008, 234037>>, <<44009, 997634>>, <<44010, 809523>>,
     <<44011, 786880>>, <<44012, 48016>>, <<45001, 882971>>, <<45002, 20445>>, <<45003, 908136>>, <<45004, 432163>>,
     <<45005, 412274>>, <<45006, 206524>>, <<45007, 586372>>, <<45008, 314164>>, <<45009, 476814>>, <<45010, 924442>>,
     <<45011, 35692>>, <<45012, 513864>>, <<46001, 643782>>, <<46002, 431440>>, <<46003, 525465>>, <<46004, 674946>>,
     <<46005, 220742>>, <<46006, 316376>>, <<46007, 630335>>, <<46008, 201815>>, <<46009, 802306>>, <<46010, 926840>>,
     <<46011, 387395>>, <<46012, 660007>>, <<47001, 611259>>, <<47002, 905599>>, <<47003, 913475>>, <<47004, 486272>>,
     <<47005, 583905>>, <<47006, 953629>>, <<47007, 832756>>, <<47008, 248988>>, <<47009, 687925>>, <<47010, 115794>>,
     <<47011, 451762>>, <<47012, 417882>>, <<48001, 424537>>, <<48002, 141699>>, <<48003, 166094>>, <<48004, 551239>>,
     <<48005, 296424>>, <<48006, 220732>>, <<48007, 91201>>, <<48008, 280596>>, <<48009, 830906>>, <<48010, 800595>>,
     <<48011, 122522>>, <<48012, 924461>>, <<49001, 368563>>, <<49002, 420801>>, <<49003, 382971>>, <<49004, 675988>>,
     <<49005, 219811>>, <<49006, 153983>>, <<49007, 661721>>, <<49008, 661083>>, <<49009, 888338>>, <<49010, 349356>>,
     <<49011, 698956>>, <<49012, 890214>>, <<50001, 408481>>, <<50002, 245888>>, <<50003, 114464>>, <<50004, 687134>>,
     <<50005, 260815>>, <<50006, 783414>>, <<50007, 731098>>, <<50008, 897706>>, <<50009, 171056>>, <<50010, 630409>>,
     <<50011, 520901>>, <<50012, 733497>>, <<50100, 713638>>, <<50101, 567016>>, <<50102, 457576>>, <<50103, 685536>>,
     <<50104, 664169>>, <<50105, 710490>>, <<50106, 224697>>, <<50107, 740863>>, <<50200, 23422>>, <<50201, 829714>>,
     <<50202, 325797>>, <<50203, 300209>>, <<50204, 908196>>, <<50205, 979179>>, <<50206, 893535>>, <<50207, 618460>>,
     <<50300, 659790>>, <<50301, 950265>>, <<50302, 973487>>, <<50303, 267216>>, <<50304, 743339>>, <<50305, 949705>>,
     <<50306, 664022>>, <<50307, 687482>>, <<50400, 244937>>, <<50401, 852107>>, <<50402, 280064>>, <<50403, 464875>>,
     <<50404, 229329>>, <<50405, 297014>>, <<50406, 976502>>, <<50407, 436366>>, <<51001, 308858>>, <<51002, 638858>>,
     <<51003, 483014>>, <<51004, 233748>>, <<51005, 593066>>, <<51006, 162052>>, <<51007, 12171>>, <<51008, 664780>>,
     <<51009, 618725>>, <<51010, 57384>>, <<51011, 604524>>, <<51012, 202283>>, <<52001, 281014>>, <<52002, 471037>>,
     <<52003, 893526>>, <<52004, 33387>>, <<52005, 71293>>, <<52006, 415828>>, <<52007, 912115>>, <<52008, 567972>>,
     <<52009, 314409>>, <<52010, 212637>>, <<52011, 15497>>, <<52012, 231594>>, <<60100, 502249>>, <<60101, 358453>>,
     <<60102, 140068>>, <<60103, 805351>>, <<60104, 74564>>, <<60105, 314893>>, <<60106, 3783>>, <<60107, 611784>>,
     <<60200, 503660>>, <<60201, 892860>>, <<60202, 66459>>, <<60203, 995335>>, <<60204, 741625>>, <<60205, 903531>>,
     <<60206, 793568>>, <<60207, 269248>>, <<60300, 163940>>, <<60301, 805213>>, <<60302, 641428>>, <<60303, 432592>>,
     <<60304, 87897>>, <<60305, 996699>>, <<60306, 220220>>, <<60307, 85089>>, <<60400, 735768>>, <<60401, 235577>>,
     <<60402, 793880>>, <<60403, 141951>>, <<60404, 684754>>, <<60405, 713428>>, <<60406, 281875>>, <<60407, 704116>>,
     <<70100, 142496>>, <<70101, 157887>>, <<70102, 657468>>, <<70103, 18945>>, <<70104, 474610>>, <<70105, 864662>>,
     <<70106, 489700>>, <<70107, 432012>>, <<70200, 449119>>, <<70201, 909291>>, <<70202, 671337>>, <<70203, 37798>>,
     <<70204, 518764>>, <<70205, 971859>>, <<70206, 639875>>, <<70207, 421791>>, <<70300, 805417>>, <<70301, 540201>>,
     <<70302, 732210>>, <<70303, 756911>>, <<70304, 58335>>, <<70305, 420246>>, <<70306, 859762>>, <<70307, 773072>>,
     <<70400, 954077>>, <<70401, 644915>>, <<70402, 417209>>, <<70403, 601203>>, <<70404, 640442>>, <<70405, 738830>>,
     <<70406, 581847>>, <<70407, 925361>>, <<80100, 821679>>, <<80101, 850511>>, <<80102, 586196>>, <<80103, 754663>>,
     <<80104, 477911>>, <<80105, 925246>>, <<80106, 318366>>, <<80107, 434668>>, <<80200, 595449>>, <<80201, 222888>>,
     <<80202, 426773>>, <<80203, 560486>>, <<80204, 664292>>, <<80205, 13184>>, <<80206, 470969>>, <<80207, 708040>>,
     <<80300, 872549>>, <<80301, 273439>>, <<80302, 280091>>, <<80303, 283828>>, <<80304, 464372>>, <<80305, 68595>>,
     <<80306, 103157>>, <<80307, 859442>>, <<80400, 315672>>, <<80401, 336252>>, <<80402, 360787>>, <<80403, 348872>>,
     <<80404, 701175>>, <<80405, 612121>>, <<80406, 460925>>, <<80407, 354530>>, <<90100, 810688>>, <<90101, 874329>>,
     <<90102, 713556>>, <<90103, 305503>>, <<90104, 964840>>, <<90105, 890775>>, <<90106, 12202>>, <<90107, 978120>>,
     <<90200, 783774>>, <<90201, 780059>>, <<90202, 978247>>, <<90203, 808959>>, <<90204, 700221>>, <<90205, 106798>>,
     <<90206, 704520>>, <<90207, 411924>>, <<90300, 91137>>, <<90301, 934506>>, <<90302, 278268>>, <<90303, 293191>>,
     <<90304, 475002>>, <<90305, 394587>>, <<90306, 999312>>, <<90307, 717401>>, <<90400, 227884>>, <<90401, 555751>>,
     <<90402, 356775>>, <<90403, 610286>>, <<90404, 597805>>, <<90405, 356381>>, <<90406, 699586>>, <<90407, 230535>>,
     <<100100, 688391>>, <<100101, 512462>>, <<100102, 406613>>, <<100103, 457642>>, <<100104, 674312>>, <<100105, 9282>>,
     <<100106, 187850>>, <<100107, 695552>>, <<100200, 554658>>, <<100201, 309570>>, <<100202, 369361>>, <<100203, 504570>>,
     <<100204, 978670>>, <<100205, 439451>>, <<100206, 184395>>, <<100207, 297094>>, <<100300, 268758>>, <<100301, 543235>>,
     <<100302, 273381>>, <<100303, 238045>>, <<100304, 897447>>, <<100305, 401223>>, <<100306, 72817>>, <<100307, 295324>>,
     <<100400, 967456>>, <<100401, 497252>>, <<100402, 391748>>, <<100403, 6800>>, <<100404, 191847>>, <<100405, 252658>>,
     <<100406, 927293>>, <<100407, 198241>>, <<110100, 538366>>, <<110101, 350565>>, <<110102, 614281>>, <<110103, 268655>>,
     <<110104, 857690>>, <<110105, 952437>>, <<110106, 447819>>, <<110107, 546192>>, <<110200, 890117>>, <<110201, 927453>>,
     <<110202, 349033>>, <<110203, 392506>>, <<110204, 556841>>, <<110205, 738131>>, <<110206, 612899>>, <<110207, 699307>>,
     <<110300, 662980>>, <<110301, 683873>>, <<110302, 944790>>, <<110303, 307334>>, <<110304, 435948>>, <<110305, 725811>>,
     <<110306, 637638>>, <<110307, 239525>>, <<110400, 586003>>, <<110401, 585114>>, <<110402, 947453>>, <<110403, 587439>>,
     <<110404, 688046>>, <<110405, 252434>>, <<110406, 7901>>, <<110407, 438066>>, <<120100, 809797>>, <<120101, 731955>>,
     <<120102, 962848>>, <<120103, 635270>>, <<120104, 517011>>, <<120105, 667102>>, <<120106, 499304>>, <<120107, 603103>>,
     <<120200, 887538>>, <<120201, 19993>>, <<120202, 191612>>, <<120203, 27597>>, <<120204, 734484>>, <<120205, 98873>>,
     <<120206, 70855>>, <<120207, 101654>>, <<120300, 909581>>, <<120301, 838440>>, <<120302, 961182>>, <<120303, 136594>>,
     <<120304, 749944>>, <<120305, 895345>>, <<120306, 203041>>, <<120307, 934380>>, <<120400, 768653>>, <<120401, 49206>>,
     <<120402, 624968>>, <<120403, 613196>>, <<120404, 747209>>, <<120405, 271837>>, <<120406, 48043>>, <<120407, 596952>> }
  IN  [s \in {p[1] : p \in pairs} |-> (CHOOSE p \in pairs : p[1] = s)[2]]

(* frac(sin(seed) * 10000), in millionths *)
seedRandom(seed) == SinTable[seed]

(* Mutant: the first band includes its upper edge. *)
placementOfRollInclusive(roll) ==
  IF roll <= placementDistribution.first THEN "first"
  ELSE IF roll < placementDistribution.first + placementDistribution.second
    THEN "second"
  ELSE IF roll < placementDistribution.first + placementDistribution.second
                   + placementDistribution.third
    THEN "third"
  ELSE "participation"

(* Lines 181-184: the band of [0,1) the roll falls in. *)
placementOfRoll(roll) ==
  IF roll < placementDistribution.first THEN "first"
  ELSE IF roll < placementDistribution.first + placementDistribution.second
    THEN "second"
  ELSE IF roll < placementDistribution.first + placementDistribution.second
                   + placementDistribution.third
    THEN "third"
  ELSE "participation"

(* Mutant: the generator carries the previous roll into the next one. *)
rollPlacementStateful(seed) ==
  placementOfRoll((seedRandom(seed)
                     + (IF call.fn = "rollPlacement" THEN seedRandom(call.arg) ELSE 0))
                  % RollScale)

rollPlacement(seed) ==
  LET roll == seedRandom(seed)
  IN  placementOfRoll(roll)

(* Mutant: participation points scale with the game's duration too. *)
getPointsForPlacementScaled(placement, gameDuration) ==
  CASE placement = "first" -> firstPlacePointsPerDay * gameDuration
    [] placement = "second" -> secondPlacePointsPerDay * gameDuration
    [] placement = "third" -> thirdPlacePointsPerDay * gameDuration
    [] OTHER -> participationPointsPerDay * gameDuration

(* Lines 188-195. *)
getPointsForPlacement(placement, gameDuration) ==
  CASE placement = "first" -> firstPlacePointsPerDay * gameDuration
    [] placement = "second" -> secondPlacePointsPerDay * gameDuration
    [] placement = "third" -> thirdPlacePointsPerDay * gameDuration
    [] OTHER -> participationPointsPerDay

---------------------------------------------------------------------------
(* Lines 272-293: helpers of the day loop. *)

(* Mutant: the first-place bucket is floored from a product that falls    *)
(* just short of the whole count.                                          *)
calculateGameTypePointsShort(gameCount, distribution, gameDuration) ==
  LET firstPlaceGames == MathFloor(gameCount * distribution.first - 1, RollScale)
      secondPlaceGames == MathFloor(gameCount * distribution.second, RollScale)
      thirdPlaceGames == MathFloor(gameCount * distribution.third, RollScale)
      participationGames == gameCount - firstPlaceGames - secondPlaceGames
                              - thirdPlaceGames
  IN  (firstPlaceGames * firstPlacePointsPerDay * gameDuration)
        + (secondPlaceGames * secondPlacePointsPerDay * gameDuration)
        + (thirdPlaceGames * thirdPlacePointsPerDay * gameDuration)
        + (participationGames * participationPointsPerDay)

(* Mutant: the buckets are rounded, not floored. *)
placementGamesRounded(gameCount, distribution) ==
  LET firstPlaceGames == MathRound(gameCount * distribution.first, RollScale)
      secondPlaceGames == MathRound(gameCount * distribution.second, RollScale)
      thirdPlaceGames == MathRound(gameCount * distribution.third, RollScale)
  IN  [first |-> firstPlaceGames, second |-> secondPlaceGames,
       third |-> thirdPlaceGames,
       participation |-> gameCount - firstPlaceGames - secondPlaceGames
                           - thirdPlaceGames]

(* Lines 274-277: the four buckets of calculateGameTypePoints.  The        *)
(* products are exact for whole counts up to 20 and probabilities in       *)
(* hundredths, where Math.floor of the floating-point product is the       *)
(* floor of the exact one.                                                 *)
placementGames(gameCount, distribution) ==
  LET firstPlaceGames == MathFloor(gameCount * distribution.first, RollScale)
      secondPlaceGames == MathFloor(gameCount * distribution.second, RollScale)
      thirdPlaceGames == MathFloor(gameCount * distribution.third, RollScale)
  IN  [first |-> firstPlaceGames, second |-> secondPlaceGames,
       third |-> thirdPlaceGames,
       participation |-> gameCount - firstPlaceGames - secondPlaceGames
                           - thirdPlaceGames]

calculateGameTypePoints(gameCount, distribution, gameDuration) ==
  LET games == placementGames(gameCount, distribution)
      firstPlaceGames == games.first
      secondPlaceGames == games.second
      thirdPlaceGames == games.third
      participationGames == games.participation
  IN  (firstPlaceGames * firstPlacePointsPerDay * gameDuration)
        + (secondPlaceGames * secondPlacePointsPerDay * gameDuration)
        + (thirdPlaceGames * thirdPlacePointsPerDay * gameDuration)
        + (participationGames * participationPointsPerDay)

(* in tenths *)
getSeasonalMultiplier(month) ==
  IF month >= 5 /\ month <= 7 THEN 8
  ELSE IF month >= 10 \/ month <= 1 THEN 12
  ELSE 10

VariationTable == <<
     864975, 879800, 894328, 908412, 921913, 934696, 946632, 957603, 967499, 976220,
     983681, 989805, 994533, 997817, 999624, 999936, 998749, 996077, 991945, 986394,
     979481, 971274, 961855, 951319, 939770, 927325, 914106, 900248, 885887, 871168,
     856237, 841243, 826338, 811668, 797382, 783621, 770524, 758221, 746835, 736479,
     727258, 719263, 712575, 707259, 703370, 700946, 700011, 700575, 702632, 706161,
     711127, 717481, 725159, 734085, 744168, 755310, 767397, 780309, 793918, 808087,
     822675, 837536, 852522, 867482, 882267, 896731, 910727, 924117, 936765, 948547,
     959345, 969050, 977565, 984806, 990699, 995187, 998225, 999781, 999841, 998403,
     995483, 991109, 985325, 978189, 969773, 960159, 949445, 937737, 925153, 911817,
     897864, 883433, 868668, 853716, 838727, 823850, 809235, 795028, 781369, 768396,
     756239, 745018, 734847, 725826, 718045, 711583, 706504, 702859, 700684, 700001,
     700817, 703123, 706897, 712100, 718682, 726575, 735702, 745971, 757279, 769514,
     782552, 796265, 810515, 825159, 840051, 855043, 869984, 884726, 899121, 913025,
     926299, 938811, 950435, 961056, 970567, 978874, 985893, 991554, 995801, 998591,
     999896, 999703, 998015, 994848, 990234, 984218, 976862, 968237, 958432, 947543,
     935679, 922959, 909511, 895467, 880970, 866163, 851194, 836213, 821371, 806814,
     792689, 779136, 766292, 754283, 743232, 733247, 724428, 716864, 710631, 705790,
     702390, 700464, 700033, 701101, 703656, 707673, 713112, 719919, 728026, 737351,
     747802, 759275, 771653, 784815, 798627, 812953, 827650, 842569, 857563, 872481,
     887175, 901497, 915304, 928459, 940830, 952294, 962736, 972051, 980146, 986941,
     992368, 996373, 998914, 999968, 999524, 997586, 994172, 989319, 983073, 975498,
     966669, 956674, 945613, 933597, 920745, 907187, 893057, 878498, 863653, 848672,
     833704, 818899, 804405, 790366, 776923, 764211, 752355, 741475, 731680, 723066,
     715721, 709718, 705116, 701962, 700287, 700108, 701427, 704230, 708489, 714163,
     721193, 729511, 739033, 749663, 761296, 773815, 787095, 801004, 815403, 830147,
     845089, 860081, 874972, 889613, 903858, 917566, 930598, 942825, 954124, 964383,
     973499, 981382, 987951, 993142, 996903, 999196, 999999, 999302, 997114, 993456,
     988364, 981890, 974099, 965067, 954886, 943656, 931491, 918511, 904847, 890635,
     876017, 861139, 846150, 831199, 816436, 802009, 788060, 774731, 762154, 750454,
     739750, 730146, 721741, 714616, 708845, 704484, 701576, 700152, 700225, 701795,
     704845, 709346, 715252, 722504, 731030, 740745, 751552, 763342, 775998, 789394,
     803395, 817862, 832649, 847611, 862596, 877455, 892040, 906205, 919808, 932714,
     944793, 955925, 965999, 974913, 982580, 988922, 993876, 997392, 999436, 999986,
     999038, 996601, 992699, 987371, 980671, 972664, 963433, 953068, 941673, 929362,
     916258, 902492, 888202, 873530, 858623, 843629, 828700, 813983, 799626, 785772,
     772560, 760122, 748582, 738055, 728647, 720451, 713549, 708011, 703892, 701233,
     700060, 700385, 702205, 705501, 710242 >>

(* 0.85 + sin(day * 0.1) * 0.15, in millionths *)
getDailyVariation(d) == VariationTable[d]

(* Line 207: floor((day - 1) / 30.44) *)
monthOfDay(d) == MathFloor((d - 1) * 100, 3044)

(* Line 217: round(dailyGames * 5/7 * seasonal * variation) *)
adjustedDailyGames(d) ==
  MathRound(dailyGames * 5 * getSeasonalMultiplier(monthOfDay(d)) * getDailyVariation(d),
            7 * SeasonScale * VarScale)

(* Mutant: the effective weekly count is floored, not rounded. *)
adjustedWeeklyGamesFloored(d) ==
  MathFloor(weeklyGames * getSeasonalMultiplier(monthOfDay(d)) * getDailyVariation(d),
            SeasonScale * VarScale)

(* Line 227: round(weeklyGames * seasonal * variation) *)
adjustedWeeklyGames(d) ==
  MathRound(weeklyGames * getSeasonalMultiplier(monthOfDay(d)) * getDailyVariation(d),
            SeasonScale * VarScale)

(* Mutant: the effective monthly count carries the daily variation. *)
adjustedMonthlyGamesVaried(d) ==
  MathRound(monthlyGames * getSeasonalMultiplier(monthOfDay(d)) * getDailyVariation(d),
            SeasonScale * VarScale)

(* Line 243: round(monthlyGames * seasonal) *)
adjustedMonthlyGames(d) ==
  MathRound(monthlyGames * getSeasonalMultiplier(monthOfDay(d)), SeasonScale)

(* Lines 231-233 and 247-249: the profile's seed offsets. *)
weeklySeedOffset ==
  IF selectedProfile = "wins-everything" THEN 1
  ELSE IF selectedProfile = "exceptional" THEN 2
  ELSE IF selectedProfile = "average" THEN 3
  ELSE 4

monthlySeedOffset ==
  IF selectedProfile = "wins-everything" THEN 100
  ELSE IF selectedProfile = "exceptional" THEN 200
  ELSE IF selectedProfile = "average" THEN 300
  ELSE 400

(* Mutant: the week index is scaled by 10. *)
weeklySeedTens(wc, gameIndex) == (wc * 10) + gameIndex + weeklySeedOffset

(* Lines 231-233: the seed of weekly game gameIndex of week wc. *)
weeklySeed(wc, gameIndex) == (wc * 1000) + gameIndex + weeklySeedOffset

(* Lines 247-249: the seed of monthly game gameIndex of month mc. *)
monthlySeed(mc, gameIndex) == (mc * 10000) + gameIndex + monthlySeedOffset

(* Lines 230-237: the points of weekly games gameIndex .. count - 1. *)
RECURSIVE weeklyGamesLoop(_, _, _)
weeklyGamesLoop(gameIndex, count, wc) ==
  IF gameIndex < count
    THEN LET seed == weeklySeed(wc, gameIndex)
             placement == rollPlacement(seed)
             gamePoints == getPointsForPlacement(placement, GAME_DURATIONS.weekly)
         IN  gamePoints + weeklyGamesLoop(gameIndex + 1, count, wc)
    ELSE 0

(* Lines 246-253: the points of monthly games gameIndex .. count - 1. *)
RECURSIVE monthlyGamesLoop(_, _, _)
monthlyGamesLoop(gameIndex, count, mc) ==
  IF gameIndex < count
    THEN LET seed == monthlySeed(mc, gameIndex)
             placement == rollPlacement(seed)
             gamePoints == getPointsForPlacement(placement, GAME_DURATIONS.monthly)
         IN  gamePoints + monthlyGamesLoop(gameIndex + 1, count, mc)
    ELSE 0

(* Lines 230-237: the weekly games gameIndex .. count - 1 of day d, one    *)
(* record for each game the loop rolls.                                    *)
RECURSIVE weeklyGamesRolled(_, _, _, _)
weeklyGamesRolled(gameIndex, count, wc, d) ==
  IF gameIndex < count
    THEN LET seed == weeklySeed(wc, gameIndex)
             placement == rollPlacement(seed)
             gamePoints == getPointsForPlacement(placement, GAME_DURATIONS.weekly)
         IN  <<[cadence |-> "weekly", day |-> d, gameIndex |-> gameIndex, seed |-> seed,
                placement |-> placement, gamePoints |-> gamePoints]>>
               \o weeklyGamesRolled(gameIndex + 1, count, wc, d)
    ELSE <<>>

(* Lines 246-253: the monthly games gameIndex .. count - 1 of day d. *)
RECURSIVE monthlyGamesRolled(_, _, _, _)
monthlyGamesRolled(gameIndex, count, mc, d) ==
  IF gameIndex < count
    THEN LET seed == monthlySeed(mc, gameIndex)
             placement == rollPlacement(seed)
             gamePoints == getPointsForPlacement(placement, GAME_DURATIONS.monthly)
         IN  <<[cadence |-> "monthly", day |-> d, gameIndex |-> gameIndex, seed |-> seed,
                placement |-> placement, gamePoints |-> gamePoints]>>
               \o monthlyGamesRolled(gameIndex + 1, count, mc, d)
    ELSE <<>>

(* Lines 214-222: the daily games' contribution to day d. *)
dailyContribution(d) ==
  IF dailyGames > 0
    THEN calculateGameTypePoints(adjustedDailyGames(d), placementDistribution,
                                 GAME_DURATIONS.daily)
    ELSE 0

(* Lines 224-238: the weekly games' contribution to day d, wc the week     *)
(* counter before the day.                                                 *)
weeklyFires(d) == d % 7 = 0 /\ weeklyGames > 0

weeklyContribution(d, wc) ==
  IF weeklyFires(d) THEN weeklyGamesLoop(0, adjustedWeeklyGames(d), wc + 1) ELSE 0

(* Lines 240-254: the monthly games' contribution to day d. *)
monthlyFires(d) == d % 30 = 0 /\ monthlyGames > 0

monthlyContribution(d, mc) ==
  IF monthlyFires(d) THEN monthlyGamesLoop(0, adjustedMonthlyGames(d), mc + 1) ELSE 0

(* Lines 224-254: the games day d rolls one by one, wc and mc the week and *)
(* month counters before the day.                                          *)
gamesRolledOnDay(d, wc, mc) ==
  (IF weeklyFires(d) THEN weeklyGamesRolled(0, adjustedWeeklyGames(d), wc + 1, d)
   ELSE <<>>)
    \o (IF monthlyFires(d) THEN monthlyGamesRolled(0, adjustedMonthlyGames(d), mc + 1, d)
        ELSE <<>>)

(* Mutant: the running total restarts with each day's points. *)
accumulateReset(total, points) == points

(* Mutant: a day's points are taken from the running total. *)
accumulateSpent(total, points) == total - points

(* Line 256: the running total after a day that awarded points. *)
accumulate(total, points) == total + points

(* Line 260: the level of a day whose running total is total. *)
currentLevelOfDay(total) == calculateLevelFromXP(total)

(* Lines 263-269: the label of day d. *)
labelOfDay(d) == IF d % 14 = 1 \/ d = 1 THEN d ELSE 0

---------------------------------------------------------------------------
(* Lines 503-515: the yearly figures of a render, from the finished        *)
(* series.                                                                 *)

totalGamesPerYear ==
  LET dailyTotal == dailyGames * 365
      weeklyTotal == weeklyGames * 52
      monthlyTotal == monthlyGames * 12
  IN  dailyTotal + weeklyTotal + monthlyTotal

(* Line 511: data[364] || 0 *)
totalPointsPerYear ==
  IF dailyPointsData[365] # 0 THEN dailyPointsData[365] ELSE 0

(* Math.round(num / den) of numbers num >= 0 and den >= 0 as JavaScript    *)
(* computes it: 0 / 0 is NaN and a positive number over 0 is Infinity,     *)
(* which Math.round returns unchanged.                                     *)
MathRoundOfQuotient(num, den) ==
  IF den = 0
    THEN IF num = 0 THEN [kind |-> "NaN", value |-> 0]
         ELSE [kind |-> "Infinity", value |-> 0]
    ELSE [kind |-> "finite", value |-> MathRound(num, den)]

(* Line 514. *)
avgPointsPerGame == MathRoundOfQuotient(totalPointsPerYear, totalGamesPerYear)

(* Line 512: data[364] || 1 *)
finalLevel ==
  IF dailyLevelsData[365] # 0 THEN dailyLevelsData[365] ELSE 1

(* Line 518. *)
levelProgress == calculateXPProgress(totalPointsPerYear)

---------------------------------------------------------------------------
(* Lines 327-417: the markers of the chart (generateGameAnnotations).  The *)
(* generator has its own copies of the roller and of the seed formulas.    *)

NoAnnotations == [key \in {} |-> 0]

(* Lines 333-336. *)
annotationSeedRandom(seed) == SinTable[seed]

(* Mutant: the generator's roller reads the bands from the top. *)
annotationRollPlacementReversed(seed) ==
  LET roll == annotationSeedRandom(seed)
  IN  IF roll < placementDistribution.participation THEN "participation"
      ELSE IF roll < placementDistribution.participation + placementDistribution.third
        THEN "third"
      ELSE IF roll < placementDistribution.participation + placementDistribution.third
                       + placementDistribution.second
        THEN "second"
      ELSE "first"

(* Lines 339-346. *)
annotationRollPlacement(seed) ==
  LET roll == annotationSeedRandom(seed)
  IN  IF roll < placementDistribution.first THEN "first"
      ELSE IF roll < placementDistribution.first + placementDistribution.second
        THEN "second"
      ELSE IF roll < placementDistribution.first + placementDistribution.second
                       + placementDistribution.third
        THEN "third"
      ELSE "participation"

(* Lines 348-355. *)
getPlacementColor(placement) ==
  CASE placement = "first" -> "rgba(255, 215, 0, 0.5)"
    [] placement = "second" -> "rgba(192, 192, 192, 0.5)"
    [] placement = "third" -> "rgba(205, 127, 50, 0.5)"
    [] OTHER -> "rgba(156, 163, 175, 0.5)"

(* Lines 379 and 408: placement.charAt(0).toUpperCase() *)
placementInitial(placement) ==
  CASE placement = "first" -> "F"
    [] placement = "second" -> "S"
    [] placement = "third" -> "T"
    [] placement = "participation" -> "P"

(* Lines 365-367 and 395-397: the generator's seeds. *)
annotationWeeklySeed(wc, gameIndex) ==
  (wc * 1000) + gameIndex
    + (IF selectedProfile = "wins-everything" THEN 1
       ELSE IF selectedProfile = "exceptional" THEN 2
       ELSE IF selectedProfile = "average" THEN 3
       ELSE 4)

annotationMonthlySeed(mc, gameIndex) ==
  (mc * 10000) + gameIndex
    + (IF selectedProfile = "wins-everything" THEN 100
       ELSE IF selectedProfile = "exceptional" THEN 200
       ELSE IF selectedProfile = "average" THEN 300
       ELSE 400)

(* Mutant: the key of a weekly marker leaves out the game index. *)
weeklyKeyOfDay(d, gameIndex) == "weekly_" \o ToString(d)

(* Lines 371 and 401: the template strings of the keys. *)
weeklyKey(d, gameIndex) == "weekly_" \o ToString(d) \o "_" \o ToString(gameIndex)

monthlyKey(d, gameIndex) == "monthly_" \o ToString(d) \o "_" \o ToString(gameIndex)

(* Lines 368-382: the marker of weekly game gameIndex of day d, week wc.   *)
(* borderWidth in tenths; seed is the local the marker was rolled from.    *)
weeklyAnnotation(d, wc, gameIndex) ==
  LET seed == annotationWeeklySeed(wc, gameIndex)
      placement == annotationRollPlacement(seed)
      color == getPlacementColor(placement)
  IN  [type |-> "line", xMin |-> d - 1, xMax |-> d - 1, borderColor |-> color,
       borderWidth |-> 5, borderDash |-> <<5, 5>>,
       content |-> placementInitial(placement), seed |-> seed]

(* Lines 398-411. *)
monthlyAnnotation(d, mc, gameIndex) ==
  LET seed == annotationMonthlySeed(mc, gameIndex)
      placement == annotationRollPlacement(seed)
      color == getPlacementColor(placement)
  IN  [type |-> "line", xMin |-> d - 1, xMax |-> d - 1, borderColor |-> color,
       borderWidth |-> 10,
       content |-> placementInitial(placement), seed |-> seed]

(* The assignments annotations[key] = value of a stretch of the loops are  *)
(* held as the object they leave behind; of two stretches in a row, the    *)
(* assignments of the later one replace those of the earlier one.          *)
ThenAssigned(earlier, later) == later @@ earlier

(* Lines 364-383: the inner loop of a weekly completion day, from          *)
(* iteration gameIndex on.                                                 *)
RECURSIVE annotateWeeklyGames(_, _, _)
annotateWeeklyGames(d, wc, gameIndex) ==
  IF gameIndex < weeklyGames
    THEN ThenAssigned(weeklyKey(d, gameIndex) :> weeklyAnnotation(d, wc, gameIndex),
                      annotateWeeklyGames(d, wc, gameIndex + 1))
    ELSE NoAnnotations

(* Lines 394-412. *)
RECURSIVE annotateMonthlyGames(_, _, _)
annotateMonthlyGames(d, mc, gameIndex) ==
  IF gameIndex < monthlyGames
    THEN ThenAssigned(monthlyKey(d, gameIndex) :> monthlyAnnotation(d, mc, gameIndex),
                      annotateMonthlyGames(d, mc, gameIndex + 1))
    ELSE NoAnnotations

---------------------------------------------------------------------------
(* Initial values of the component's state (lines 72-103). *)

NoCall == [fn |-> "none", arg |-> 0, profile |-> "none", result |-> 0]

InitConfig ==
  /\ selectedProfile = "average"
  /\ dailyGames = 2
  /\ weeklyGames = 3
  /\ monthlyGames = 1

InitPoints ==
  /\ firstPlacePointsPerDay = 5
  /\ secondPlacePointsPerDay = 3
  /\ thirdPlacePointsPerDay = 2
  /\ participationPointsPerDay = 1

InitCoefficients(k) ==
  /\ debouncedPolyA = k.a
  /\ debouncedPolyB = k.b
  /\ debouncedPolyC = k.c
  /\ debouncedPolyMultiplier = k.multiplier

InitLoop ==
  /\ pc = "idle"
  /\ day = 0
  /\ cumulativePoints = 0
  /\ totalDailyPoints = 0
  /\ dailyPointsData = <<>>
  /\ dailyLevelsData = <<>>
  /\ labels = <<>>
  /\ weekCount = 0
  /\ monthCount = 0
  /\ rolledGames = <<>>
  /\ annotations = NoAnnotations
  /\ markerDay = 0
  /\ markerCount = 0

NoScan == [pc |-> "idle", totalXP |-> 0, level |-> 0, xpUsed |-> 0, iterations |-> 0,
           result |-> 0]

InitCalls ==
  /\ call = NoCall
  /\ prevCall = NoCall
  /\ levelScan = NoScan

(* The values a render computes the series from: the configuration and    *)
(* the debounced coefficients (lines 123-129, 167-324).                    *)
RenderInputs ==
  [selectedProfile |-> selectedProfile, dailyGames |-> dailyGames,
   weeklyGames |-> weeklyGames, monthlyGames |-> monthlyGames,
   firstPlacePointsPerDay |-> firstPlacePointsPerDay,
   secondPlacePointsPerDay |-> secondPlacePointsPerDay,
   thirdPlacePointsPerDay |-> thirdPlacePointsPerDay,
   participationPointsPerDay |-> participationPointsPerDay,
   a |-> debouncedPolyA, b |-> debouncedPolyB, c |-> debouncedPolyC,
   multiplier |-> debouncedPolyMultiplier]

(* The edited coefficients. *)
Coefficients == [a |-> polyA, b |-> polyB, c |-> polyC, multiplier |-> polyMultiplier]

DebouncedCoefficients ==
  [a |-> debouncedPolyA, b |-> debouncedPolyB, c |-> debouncedPolyC,
   multiplier |-> debouncedPolyMultiplier]

(* The component at rest: the coefficient inputs show the debounced        *)
(* values, the timer of the last effect has fired.                         *)
InitSettled ==
  /\ polyA = debouncedPolyA
  /\ polyB = debouncedPolyB
  /\ polyC = debouncedPolyC
  /\ polyMultiplier = debouncedPolyMultiplier
  /\ isCalculating = FALSE
  /\ timeout = 1
  /\ timeouts = {}
  /\ chartInputs = RenderInputs
  /\ edits = 0
  /\ burstEdits = 0
  /\ burstUpdates = 1

---------------------------------------------------------------------------
(* The level curve on its own: the coefficients are any of the coefficient *)
(* sets, and each action is one call of one function of lines 123-164.     *)

XPInputs == (0..MaxXP) \cup {calculateTotalXPToLevel(N) : N \in 0..MaxLevel}

Called(fn, arg, result) ==
  /\ call.fn = "none"
  /\ call' = [fn |-> fn, arg |-> arg, profile |-> selectedProfile, result |-> result]
  /\ prevCall' = prevCall
  /\ levelScan' = levelScan

CallXPForLevel ==
  /\ \E level \in 1..MaxLevel :
       Called("calculateXPForLevel", level, calculateXPForLevel(level))
  /\ UNCHANGED <<configVars, curveVars, simVars, editVars, debounceVars>>

CallTotalXPToLevel ==
  /\ \E targetLevel \in 0..MaxLevel :
       Called("calculateTotalXPToLevel", targetLevel, calculateTotalXPToLevel(targetLevel))
  /\ UNCHANGED <<configVars, curveVars, simVars, editVars, debounceVars>>

CallLevelFromXP ==
  /\ \E totalXP \in XPInputs :
       Called("calculateLevelFromXP", totalXP, calculateLevelFromXP(totalXP))
  /\ UNCHANGED <<configVars, curveVars, simVars, editVars, debounceVars>>

CallXPProgress ==
  /\ \E totalXP \in XPInputs :
       Called("calculateXPProgress", totalXP, calculateXPProgress(totalXP))
  /\ UNCHANGED <<configVars, curveVars, simVars, editVars, debounceVars>>

Return ==
  /\ call.fn # "none"
  /\ call' = NoCall
  /\ prevCall' = prevCall
  /\ levelScan' = levelScan
  /\ UNCHANGED <<configVars, curveVars, simVars, editVars, debounceVars>>

InitCurve ==
  /\ InitConfig
  /\ InitPoints
  /\ \E k \in CoefficientSets : InitCoefficients(k)
  /\ InitLoop
  /\ InitCalls
  /\ InitSettled

NextCurve ==
  \/ CallXPForLevel
  \/ CallTotalXPToLevel
  \/ CallLevelFromXP
  \/ CallXPProgress
  \/ Return

SpecCurve == InitCurve /\ [][NextCurve]_vars

---------------------------------------------------------------------------
(* The roller on its own: the profile is selected (line 612) and           *)
(* rollPlacement is called on a seed.                                      *)

RollSeeds == {s \in DOMAIN SinTable : s \div 1000 <= MaxRollWeeks}

setSelectedProfile ==
  /\ \E p \in PlayerProfile : selectedProfile' = p
  /\ UNCHANGED <<dailyGames, weeklyGames, monthlyGames, firstPlacePointsPerDay,
                 secondPlacePointsPerDay, thirdPlacePointsPerDay,
                 participationPointsPerDay, curveVars, simVars, callVars, editVars,
                 isCalculating, timeout, timeouts, edits, burstEdits, burstUpdates>>
  /\ chartInputs' = RenderInputs'

CallRollPlacement ==
  /\ \E seed \in RollSeeds :
       call' = [fn |-> "rollPlacement", arg |-> seed, profile |-> selectedProfile,
                result |-> rollPlacement(seed)]
  /\ prevCall' = call
  /\ levelScan' = levelScan
  /\ UNCHANGED <<configVars, curveVars, simVars, editVars, debounceVars>>

InitRoll ==
  /\ InitConfig
  /\ InitPoints
  /\ InitCoefficients(InitialCoefficients)
  /\ InitLoop
  /\ InitCalls
  /\ InitSettled

NextRoll ==
  \/ setSelectedProfile
  \/ CallRollPlacement

SpecRoll == InitRoll /\ [][NextRoll]_vars

---------------------------------------------------------------------------
(* The year simulation (chartData, lines 167-324): the inputs are any      *)
(* configuration within the bounds, and each step is one iteration of      *)
(* days.forEach (lines 205-270).                                           *)

StartSimulation ==
  /\ pc = "idle"
  /\ pc' = "loop"
  /\ UNCHANGED <<configVars, curveVars, day, cumulativePoints, totalDailyPoints,
                 dailyPointsData, dailyLevelsData, labels, weekCount, monthCount,
                 rolledGames, annotations, markerDay, markerCount, callVars, editVars,
                 debounceVars>>

SimulateDay ==
  /\ pc = "loop"
  /\ day < DaysInYear
  /\ LET d == day + 1
         points == dailyContribution(d) + weeklyContribution(d, weekCount)
                     + monthlyContribution(d, monthCount)
     IN  /\ day' = d
         /\ weekCount' = IF weeklyFires(d) THEN weekCount + 1 ELSE weekCount
         /\ monthCount' = IF monthlyFires(d) THEN monthCount + 1 ELSE monthCount
         /\ totalDailyPoints' = points
         /\ cumulativePoints' = accumulate(cumulativePoints, points)
         /\ dailyPointsData' =
              Append(dailyPointsData, accumulate(cumulativePoints, points))
         /\ dailyLevelsData' =
              Append(dailyLevelsData,
                     currentLevelOfDay(accumulate(cumulativePoints, points)))
         /\ labels' = Append(labels, labelOfDay(d))
         /\ rolledGames' = rolledGames \o gamesRolledOnDay(d, weekCount, monthCount)
         /\ UNCHANGED <<annotations, markerDay, markerCount>>
         /\ pc' = IF d = DaysInYear THEN "done" ELSE "loop"
  /\ UNCHANGED <<configVars, curveVars, callVars, editVars, debounceVars>>

(* Lines 327-417: the markers are computed once the series is.  Each step  *)
(* of the weekly and the monthly loop is one iteration of the outer loop.  *)
seriesVars == <<day, cumulativePoints, totalDailyPoints, dailyPointsData,
                dailyLevelsData, labels, weekCount, monthCount, rolledGames>>

(* Lines 329, 358-360. *)
StartAnnotations ==
  /\ pc = "done"
  /\ pc' = "weekly"
  /\ annotations' = NoAnnotations
  /\ markerDay' = 7
  /\ markerCount' = 0
  /\ UNCHANGED <<configVars, curveVars, seriesVars, callVars, editVars, debounceVars>>

(* Lines 360-384: one iteration of for (day = 7; day <= 365; day += 7). *)
AnnotateWeek ==
  /\ pc = "weekly"
  /\ weeklyGames > 0
  /\ markerDay <= DaysInYear
  /\ markerCount' = markerCount + 1
  /\ annotations' =
       ThenAssigned(annotations, annotateWeeklyGames(markerDay, markerCount + 1, 0))
  /\ markerDay' = markerDay + 7
  /\ pc' = pc
  /\ UNCHANGED <<configVars, curveVars, seriesVars, callVars, editVars, debounceVars>>

(* Lines 358, 360 and 388-390: the weekly loop is over or skipped. *)
StartMonths ==
  /\ pc = "weekly"
  /\ ~(weeklyGames > 0 /\ markerDay <= DaysInYear)
  /\ pc' = "monthly"
  /\ markerDay' = 30
  /\ markerCount' = 0
  /\ UNCHANGED <<configVars, curveVars, seriesVars, annotations, callVars, editVars,
                 debounceVars>>

(* Lines 390-413: one iteration of for (day = 30; day <= 365; day += 30). *)
AnnotateMonth ==
  /\ pc = "monthly"
  /\ monthlyGames > 0
  /\ markerDay <= DaysInYear
  /\ markerCount' = markerCount + 1
  /\ annotations' =
       ThenAssigned(annotations, annotateMonthlyGames(markerDay, markerCount + 1, 0))
  /\ markerDay' = markerDay + 30
  /\ pc' = pc
  /\ UNCHANGED <<configVars, curveVars, seriesVars, callVars, editVars, debounceVars>>

(* Lines 388, 390 and 416: the monthly loop is over or skipped. *)
ReturnAnnotations ==
  /\ pc = "monthly"
  /\ ~(monthlyGames > 0 /\ markerDay <= DaysInYear)
  /\ pc' = "rendered"
  /\ UNCHANGED <<configVars, curveVars, seriesVars, annotations, markerDay, markerCount,
                 callVars, editVars, debounceVars>>

SimCoefficients == {InitialCoefficients}

InitSim ==
  /\ selectedProfile \in PlayerProfile
  /\ dailyGames \in 0..MaxDailyGames
  /\ weeklyGames \in 0..MaxWeeklyGames
  /\ monthlyGames \in 0..MaxMonthlyGames
  /\ InitPoints
  /\ \E k \in SimCoefficients : InitCoefficients(k)
  /\ InitLoop
  /\ InitCalls
  /\ InitSettled

NextSim ==
  \/ StartSimulation
  \/ SimulateDay
  \/ StartAnnotations
  \/ AnnotateWeek
  \/ StartMonths
  \/ AnnotateMonth
  \/ ReturnAnnotations

SpecSim == InitSim /\ [][NextSim]_vars

(* The day loop under several level curves: the full weekly and monthly    *)
(* schedule, and coefficients that are the initial ones, a preset (line    *)
(* 1008) or typed values whose curve first falls and then rises            *)
(* (x^2 - 20 x + 120).                                                     *)
YearCoefficients ==
  {InitialCoefficients,
   [a |-> 0, b |-> 100000, c |-> 0, multiplier |-> 100],
   [a |-> 1000, b |-> -20000, c |-> 120000, multiplier |-> 100]}

InitYear ==
  /\ selectedProfile \in PlayerProfile
  /\ dailyGames \in 0..MaxDailyGames
  /\ weeklyGames = MaxWeeklyGames
  /\ monthlyGames = MaxMonthlyGames
  /\ InitPoints
  /\ \E k \in YearCoefficients : InitCoefficients(k)
  /\ InitLoop
  /\ InitCalls
  /\ InitSettled

NextYear ==
  \/ StartSimulation
  \/ SimulateDay

SpecYear == InitYear /\ [][NextYear]_vars

---------------------------------------------------------------------------
(* The seed formulas on their own (lines 231-233, 247-249, 365-367 and     *)
(* 395-397): the schedule counts are 0, 1 or the largest value of their    *)
(* inputs, and each action computes the seed of one game of the year.      *)

WeeksInYear == DaysInYear \div 7

MonthsInYear == DaysInYear \div 30

(* The games the day loop rolls: [cadence, occurrence, gameIndex]. *)
SimulatorTriples ==
  UNION {{[cadence |-> "weekly", occurrence |-> wc, gameIndex |-> g] :
            g \in 0..(adjustedWeeklyGames(7 * wc) - 1)} : wc \in 1..WeeksInYear}
    \cup UNION {{[cadence |-> "monthly", occurrence |-> mc, gameIndex |-> g] :
                   g \in 0..(adjustedMonthlyGames(30 * mc) - 1)} : mc \in 1..MonthsInYear}

(* The games the marker generator rolls. *)
AnnotationTriples ==
  [cadence : {"weekly"}, occurrence : 1..WeeksInYear, gameIndex : 0..(weeklyGames - 1)]
    \cup [cadence : {"monthly"}, occurrence : 1..MonthsInYear,
          gameIndex : 0..(monthlyGames - 1)]

SimulatorSeed(t) ==
  IF t.cadence = "weekly" THEN weeklySeed(t.occurrence, t.gameIndex)
  ELSE monthlySeed(t.occurrence, t.gameIndex)

AnnotationSeed(t) ==
  IF t.cadence = "weekly" THEN annotationWeeklySeed(t.occurrence, t.gameIndex)
  ELSE annotationMonthlySeed(t.occurrence, t.gameIndex)

(* The occurrences whose seeds the actions compute: the first and the      *)
(* last of each cadence, and week 10, whose seeds are nearest to those of  *)
(* month 1; of each, the first and the last game.                          *)
CalledOccurrences == {1, 10, MonthsInYear, WeeksInYear}

(* The games of an occurrence the day loop rolls, and those the marker    *)
(* generator rolls.                                                        *)
SimulatorGames(cadence, occurrence) ==
  IF cadence = "weekly" THEN adjustedWeeklyGames(7 * occurrence)
  ELSE adjustedMonthlyGames(30 * occurrence)

AnnotationGames(cadence, occurrence) ==
  IF cadence = "weekly" THEN weeklyGames ELSE monthlyGames

OccurrencesOf(cadence) ==
  IF cadence = "weekly" THEN 1..WeeksInYear ELSE 1..MonthsInYear

CallSimulatorSeed ==
  /\ call.fn = "none"
  /\ \E cadence \in {"weekly", "monthly"} :
       \E occurrence \in CalledOccurrences \cap OccurrencesOf(cadence) :
         \E gameIndex \in {0, SimulatorGames(cadence, occurrence) - 1} :
           LET t == [cadence |-> cadence, occurrence |-> occurrence,
                     gameIndex |-> gameIndex]
           IN  /\ gameIndex < SimulatorGames(cadence, occurrence)
               /\ call' = [fn |-> "chartData seed", arg |-> t,
                           profile |-> selectedProfile, result |-> SimulatorSeed(t)]
  /\ prevCall' = prevCall
  /\ levelScan' = levelScan
  /\ UNCHANGED <<configVars, curveVars, simVars, editVars, debounceVars>>

CallAnnotationSeed ==
  /\ call.fn = "none"
  /\ \E cadence \in {"weekly", "monthly"} :
       \E occurrence \in CalledOccurrences \cap OccurrencesOf(cadence) :
         \E gameIndex \in {0, AnnotationGames(cadence, occurrence) - 1} :
           LET t == [cadence |-> cadence, occurrence |-> occurrence,
                     gameIndex |-> gameIndex]
           IN  /\ gameIndex < AnnotationGames(cadence, occurrence)
               /\ call' = [fn |-> "generateGameAnnotations seed", arg |-> t,
                           profile |-> selectedProfile, result |-> AnnotationSeed(t)]
  /\ prevCall' = prevCall
  /\ levelScan' = levelScan
  /\ UNCHANGED <<configVars, curveVars, simVars, editVars, debounceVars>>

InitSeeds ==
  /\ selectedProfile \in PlayerProfile
  /\ dailyGames = 0
  /\ weeklyGames \in {0, 1, WeeklyGamesInputMax}
  /\ monthlyGames \in {0, 1, MonthlyGamesInputMax}
  /\ InitPoints
  /\ InitCoefficients(InitialCoefficients)
  /\ InitLoop
  /\ InitCalls
  /\ InitSettled

NextSeeds ==
  \/ CallSimulatorSeed
  \/ CallAnnotationSeed

SpecSeeds == InitSeeds /\ [][NextSeeds]_vars

---------------------------------------------------------------------------
(* The inputs and the debounce of the coefficients (lines 105-117 and the  *)
(* handlers of lines 612-1037).  Each action is one event of the page: the *)
(* handler, the render it causes and the effect of that render; a timer    *)
(* callback is an event of its own.                                        *)

(* Whole numbers typed into an input. *)
TypedNumbers == {0, 1}

(* The time that passes between two events, in milliseconds. *)
TickLengths == {100, 200}

(* Lines 108-114: the timer of handle id, its callback holding the         *)
(* coefficients k of the render that set it.                               *)
setTimeout(k, id) ==
  [id |-> id, a |-> k.a, b |-> k.b, c |-> k.c, multiplier |-> k.multiplier,
   remaining |-> DebounceDelay]

(* Mutant: the cleanup of the effect clears nothing. *)
clearTimeoutNothing(pending, id) == pending

(* Line 116: clearTimeout(timeout) *)
clearTimeout(pending, id) == {t \in pending : t.id # id}

(* Mutant: the effect has no cleanup. *)
DebounceEffectUncancelled(k) ==
  /\ isCalculating' = TRUE
  /\ timeouts' = timeouts \cup {setTimeout(k, timeout + 1)}
  /\ timeout' = timeout + 1

(* Mutant: the effect does not raise the calculating flag. *)
DebounceEffectUnflagged(k) ==
  /\ isCalculating' = isCalculating
  /\ timeouts' = clearTimeout(timeouts, timeout) \cup {setTimeout(k, timeout + 1)}
  /\ timeout' = timeout + 1

(* Lines 106-117: the effect after a render with new coefficients k: the   *)
(* cleanup of the previous run, then the body.                             *)
DebounceEffect(k) ==
  /\ isCalculating' = TRUE
  /\ timeouts' = clearTimeout(timeouts, timeout) \cup {setTimeout(k, timeout + 1)}
  /\ timeout' = timeout + 1

(* A handler sets the coefficients to k (lines 903-967, 984-1033); the     *)
(* effect runs when one of its dependencies has changed (line 117).        *)
CoefficientsSet(k) ==
  /\ edits < MaxEdits
  /\ edits' = edits + 1
  /\ polyA' = k.a
  /\ polyB' = k.b
  /\ polyC' = k.c
  /\ polyMultiplier' = k.multiplier
  /\ IF k # Coefficients
       THEN /\ DebounceEffect(k)
            /\ burstEdits' = IF timeouts = {} THEN 1 ELSE burstEdits + 1
            /\ burstUpdates' = IF timeouts = {} THEN 0 ELSE burstUpdates
       ELSE UNCHANGED <<isCalculating, timeout, timeouts, burstEdits, burstUpdates>>
  /\ UNCHANGED <<configVars, curveVars, simVars, callVars>>
  /\ chartInputs' = RenderInputs'

setPolyA ==
  \E v \in TypedNumbers : CoefficientsSet([Coefficients EXCEPT !.a = v * CoefScale])

setPolyB ==
  \E v \in TypedNumbers : CoefficientsSet([Coefficients EXCEPT !.b = v * CoefScale])

setPolyC ==
  \E v \in TypedNumbers : CoefficientsSet([Coefficients EXCEPT !.c = v * CoefScale])

setPolyMultiplier ==
  \E v \in TypedNumbers :
    CoefficientsSet([Coefficients EXCEPT !.multiplier = v * MultScale])

(* Lines 983-1037: a preset button sets all four coefficients. *)
ApplyPreset == \E k \in PresetCoefficients : CoefficientsSet(k)

(* Mutant: every input change restarts the debounce timer. *)
InputChangedDebounced ==
  /\ edits < MaxEdits
  /\ edits' = edits + 1
  /\ DebounceEffect(Coefficients)
  /\ UNCHANGED <<curveVars, simVars, callVars, editVars, burstEdits, burstUpdates>>
  /\ chartInputs' = RenderInputs'

(* The rest of an event that changes an input other than a coefficient:    *)
(* the render recomputes the series, the effect's dependencies are         *)
(* unchanged.                                                              *)
InputChanged ==
  /\ edits < MaxEdits
  /\ edits' = edits + 1
  /\ UNCHANGED <<curveVars, simVars, callVars, editVars, isCalculating, timeout,
                 timeouts, burstEdits, burstUpdates>>
  /\ chartInputs' = RenderInputs'

(* Lines 651, 672, 693. *)
setDailyGames ==
  /\ \E v \in 0..MaxDailyGames : dailyGames' = v
  /\ UNCHANGED <<selectedProfile, weeklyGames, monthlyGames, firstPlacePointsPerDay,
                 secondPlacePointsPerDay, thirdPlacePointsPerDay,
                 participationPointsPerDay>>
  /\ InputChanged

setWeeklyGames ==
  /\ \E v \in 0..MaxWeeklyGames : weeklyGames' = v
  /\ UNCHANGED <<selectedProfile, dailyGames, monthlyGames, firstPlacePointsPerDay,
                 secondPlacePointsPerDay, thirdPlacePointsPerDay,
                 participationPointsPerDay>>
  /\ InputChanged

setMonthlyGames ==
  /\ \E v \in 0..MaxMonthlyGames : monthlyGames' = v
  /\ UNCHANGED <<selectedProfile, dailyGames, weeklyGames, firstPlacePointsPerDay,
                 secondPlacePointsPerDay, thirdPlacePointsPerDay,
                 participationPointsPerDay>>
  /\ InputChanged

(* Lines 720, 738, 756, 774. *)
setFirstPlacePointsPerDay ==
  /\ \E v \in TypedNumbers : firstPlacePointsPerDay' = v
  /\ UNCHANGED <<selectedProfile, dailyGames, weeklyGames, monthlyGames,
                 secondPlacePointsPerDay, thirdPlacePointsPerDay,
                 participationPointsPerDay>>
  /\ InputChanged

setSecondPlacePointsPerDay ==
  /\ \E v \in TypedNumbers : secondPlacePointsPerDay' = v
  /\ UNCHANGED <<selectedProfile, dailyGames, weeklyGames, monthlyGames,
                 firstPlacePointsPerDay, thirdPlacePointsPerDay,
                 participationPointsPerDay>>
  /\ InputChanged

setThirdPlacePointsPerDay ==
  /\ \E v \in TypedNumbers : thirdPlacePointsPerDay' = v
  /\ UNCHANGED <<selectedProfile, dailyGames, weeklyGames, monthlyGames,
                 firstPlacePointsPerDay, secondPlacePointsPerDay,
                 participationPointsPerDay>>
  /\ InputChanged

setParticipationPointsPerDay ==
  /\ \E v \in TypedNumbers : participationPointsPerDay' = v
  /\ UNCHANGED <<selectedProfile, dailyGames, weeklyGames, monthlyGames,
                 firstPlacePointsPerDay, secondPlacePointsPerDay,
                 thirdPlacePointsPerDay>>
  /\ InputChanged

(* Time passes while a timer is running. *)
TimePasses ==
  /\ \E t \in timeouts : t.remaining > 0
  /\ \E dt \in TickLengths :
       timeouts' = {[t EXCEPT !.remaining = Max(0, @ - dt)] : t \in timeouts}
  /\ UNCHANGED <<configVars, curveVars, simVars, callVars, editVars, isCalculating,
                 timeout, chartInputs, edits, burstEdits, burstUpdates>>

(* Mutant: the callback leaves the debounced multiplier as it is. *)
TimeoutFiredPartial ==
  \E t \in timeouts :
    /\ t.remaining = 0
    /\ debouncedPolyA' = t.a
    /\ debouncedPolyB' = t.b
    /\ debouncedPolyC' = t.c
    /\ debouncedPolyMultiplier' = debouncedPolyMultiplier
    /\ isCalculating' = FALSE
    /\ timeouts' = timeouts \ {t}
    /\ burstUpdates' = burstUpdates + 1
    /\ UNCHANGED <<configVars, simVars, callVars, editVars, timeout, edits, burstEdits>>
    /\ chartInputs' = RenderInputs'

(* Lines 108-114: the callback of a timer whose delay has passed. *)
TimeoutFired ==
  \E t \in timeouts :
    /\ t.remaining = 0
    /\ debouncedPolyA' = t.a
    /\ debouncedPolyB' = t.b
    /\ debouncedPolyC' = t.c
    /\ debouncedPolyMultiplier' = t.multiplier
    /\ isCalculating' = FALSE
    /\ timeouts' = timeouts \ {t}
    /\ burstUpdates' = burstUpdates + 1
    /\ UNCHANGED <<configVars, simVars, callVars, editVars, timeout, edits, burstEdits>>
    /\ chartInputs' = RenderInputs'

(* The page after it has mounted: the effect has run once (lines 106-117). *)
InitDebounce ==
  /\ InitConfig
  /\ InitPoints
  /\ InitCoefficients(InitialCoefficients)
  /\ InitLoop
  /\ InitCalls
  /\ polyA = InitialCoefficients.a
  /\ polyB = InitialCoefficients.b
  /\ polyC = InitialCoefficients.c
  /\ polyMultiplier = InitialCoefficients.multiplier
  /\ isCalculating = TRUE
  /\ timeout = 1
  /\ timeouts = {setTimeout(InitialCoefficients, 1)}
  /\ chartInputs = RenderInputs
  /\ edits = 0
  /\ burstEdits = 0
  /\ burstUpdates = 0

NextDebounce ==
  \/ setPolyA
  \/ setPolyB
  \/ setPolyC
  \/ setPolyMultiplier
  \/ ApplyPreset
  \/ setSelectedProfile
  \/ setDailyGames
  \/ setWeeklyGames
  \/ setMonthlyGames
  \/ setFirstPlacePointsPerDay
  \/ setSecondPlacePointsPerDay
  \/ setThirdPlacePointsPerDay
  \/ setParticipationPointsPerDay
  \/ TimePasses
  \/ TimeoutFired

SpecDebounce == InitDebounce /\ [][NextDebounce]_vars

(* The event loop runs a timer's callback once its delay has passed. *)
FairSpecDebounce ==
  SpecDebounce /\ WF_vars(TimePasses) /\ WF_vars(TimeoutFired)

---------------------------------------------------------------------------
(* The daily split on its own: the points per placement are any of a few   *)
(* values, and each action is one call of calculateGameTypePoints (lines   *)
(* 273-285) on a count, a distribution and a duration.                     *)

PointValues == {0, 1, 3}

(* Distributions with non-negative probabilities summing to 1, in          *)
(* millionths: those of the profiles and three more.                       *)
Distributions ==
  {playerProfiles[p] : p \in PlayerProfile}
    \cup {[first |-> 250000, second |-> 250000, third |-> 250000, participation |-> 250000],
          [first |-> 100000, second |-> 200000, third |-> 300000, participation |-> 400000],
          [first |-> 340000, second |-> 330000, third |-> 330000, participation |-> 0]}

Durations == {GAME_DURATIONS.daily, GAME_DURATIONS.weekly, GAME_DURATIONS.monthly}

CallGameTypePoints ==
  /\ \E gameCount \in 0..MaxGameCount, distribution \in Distributions,
        gameDuration \in Durations :
       Called("calculateGameTypePoints",
              [gameCount |-> gameCount, distribution |-> distribution,
               gameDuration |-> gameDuration],
              calculateGameTypePoints(gameCount, distribution, gameDuration))
  /\ UNCHANGED <<configVars, curveVars, simVars, editVars, debounceVars>>

InitSplit ==
  /\ InitConfig
  /\ firstPlacePointsPerDay \in PointValues
  /\ secondPlacePointsPerDay \in PointValues
  /\ thirdPlacePointsPerDay \in PointValues
  /\ participationPointsPerDay \in PointValues
  /\ InitCoefficients(InitialCoefficients)
  /\ InitLoop
  /\ InitCalls
  /\ InitSettled

NextSplit ==
  \/ CallGameTypePoints
  \/ Return

SpecSplit == InitSplit /\ [][NextSplit]_vars

---------------------------------------------------------------------------
(* calculateLevelFromXP step by step (lines 139-149): the coefficients are *)
(* any of the coefficient sets, the argument is negative, zero or          *)
(* positive, and each action is one step of the function.                  *)

ScanInputs == (0 - 2)..MaxXP

(* Lines 139-141: the call, level = 1 and xpUsed = 0. *)
CallLevelScan ==
  /\ levelScan.pc = "idle"
  /\ \E totalXP \in ScanInputs :
       levelScan' = [pc |-> "while", totalXP |-> totalXP, level |-> 1, xpUsed |-> 0,
                     iterations |-> 0, result |-> 0]
  /\ UNCHANGED <<configVars, curveVars, simVars, call, prevCall, editVars, debounceVars>>

(* Mutant: the body of the loop does not add to xpUsed. *)
ScanIterateStalled ==
  /\ levelScan.pc = "while"
  /\ levelScan.iterations <= MaxXP
  /\ levelScan.xpUsed + calculateXPForLevel(levelScan.level) <= levelScan.totalXP
  /\ levelScan' = [levelScan EXCEPT !.level = @ + 1, !.iterations = @ + 1]
  /\ UNCHANGED <<configVars, curveVars, simVars, call, prevCall, editVars, debounceVars>>

(* Lines 143-146: one iteration of the while loop.  The number of          *)
(* iterations explored is capped at MaxXP + 1.                             *)
ScanIterate ==
  /\ levelScan.pc = "while"
  /\ levelScan.iterations <= MaxXP
  /\ levelScan.xpUsed + calculateXPForLevel(levelScan.level) <= levelScan.totalXP
  /\ levelScan' = [levelScan EXCEPT
                     !.xpUsed = @ + calculateXPForLevel(levelScan.level),
                     !.level = @ + 1,
                     !.iterations = @ + 1]
  /\ UNCHANGED <<configVars, curveVars, simVars, call, prevCall, editVars, debounceVars>>

(* Lines 143 and 148: the loop condition fails, level - 1 is returned. *)
ScanReturn ==
  /\ levelScan.pc = "while"
  /\ ~(levelScan.xpUsed + calculateXPForLevel(levelScan.level) <= levelScan.totalXP)
  /\ levelScan' = [levelScan EXCEPT !.pc = "returned", !.result = levelScan.level - 1]
  /\ UNCHANGED <<configVars, curveVars, simVars, call, prevCall, editVars, debounceVars>>

InitScan ==
  /\ InitConfig
  /\ InitPoints
  /\ \E k \in CoefficientSets : InitCoefficients(k)
  /\ InitLoop
  /\ InitCalls
  /\ InitSettled

NextScan ==
  \/ CallLevelScan
  \/ ScanIterate
  \/ ScanReturn

SpecScan == InitScan /\ [][NextScan]_vars

(* The function runs to its end once called: nothing else runs on the      *)
(* page's thread meanwhile.                                                *)
FairSpecScan == SpecScan /\ WF_vars(ScanIterate) /\ WF_vars(ScanReturn)

---------------------------------------------------------------------------
(* Properties of the level curve, under SpecCurve. *)

Maximum(S) == CHOOSE x \in S : \A y \in S : y <= x

(* The levels a total of at most MaxXP, or the total of a level up to     *)
(* MaxLevel, can reach: every level costs at least 1 XP.                   *)
LevelCandidates == 0..(MaxXP + 1)

(* The largest level whose cumulative requirement does not exceed totalXP. *)
LargestLevelWithin(totalXP) ==
  Maximum({L \in LevelCandidates : calculateTotalXPToLevel(L) <= totalXP})

(* xpForLevel does not decrease from level lo to level hi. *)
MonotonicOver(lo, hi) ==
  \A L \in lo..(hi - 1) : calculateXPForLevel(L) <= calculateXPForLevel(L + 1)

(* C1: the greedy forward scan of calculateLevelFromXP returns the largest *)
(* level L >= 0 whose cumulative requirement xpForLevel(1) + ... +         *)
(* xpForLevel(L) does not exceed totalXP, for every coefficient set,       *)
(* monotonic or not, and returns 0 when xpForLevel(1) > totalXP.           *)
C1_GreedyIsLargestLevel ==
  call.fn = "calculateLevelFromXP" =>
    /\ call.result = LargestLevelWithin(call.arg)
    /\ call.result >= 0
    /\ (calculateXPForLevel(1) > call.arg => call.result = 0)

C1_Witness ==
  /\ call.fn = "calculateLevelFromXP"
  /\ call.result >= 3
  /\ ~MonotonicOver(1, call.result + 1)
  /\ calculateXPForLevel(1) > 1

(* C2: at an exact level boundary of a curve that does not decrease over   *)
(* [1, N+1], calculateLevelFromXP(calculateTotalXPToLevel(N)) = N, and     *)
(* calculateXPProgress there has currentLevel = N and xpInLevel = 0.       *)
C2_RoundTripAtBoundary ==
  \A N \in 0..MaxLevel :
    (call.arg = calculateTotalXPToLevel(N) /\ MonotonicOver(1, N + 1)) =>
      /\ (call.fn = "calculateLevelFromXP" => call.result = N)
      /\ (call.fn = "calculateXPProgress" =>
            call.result.currentLevel = N /\ call.result.xpInLevel = 0)

C2_Witness ==
  /\ call.fn = "calculateXPProgress"
  /\ call.result.currentLevel = MaxLevel
  /\ call.arg = calculateTotalXPToLevel(MaxLevel)
  /\ MonotonicOver(1, MaxLevel + 1)
  /\ calculateXPForLevel(1) < calculateXPForLevel(MaxLevel + 1)
  /\ call.result.xpInLevel = 0

(* C3: calculateXPForLevel(L) is an integer >= 1 for every level L >= 1    *)
(* and every coefficient set, also when the polynomial value is zero or    *)
(* negative.                                                               *)
C3_XPForLevelAtLeastOne ==
  call.fn = "calculateXPForLevel" => (call.result \in Int /\ call.result >= 1)

C3_Witness ==
  /\ call.fn = "calculateXPForLevel"
  /\ (debouncedPolyA * call.arg * call.arg) + (debouncedPolyB * call.arg)
       + debouncedPolyC < 0
  /\ debouncedPolyMultiplier > 0
  /\ call.result = 1

(* C4: calculateTotalXPToLevel(0) = 0 and, for N >= 1,                     *)
(* calculateTotalXPToLevel(N) = calculateTotalXPToLevel(N - 1) +           *)
(* calculateXPForLevel(N).                                                 *)
C4_TotalXPRecurrence ==
  call.fn = "calculateTotalXPToLevel" =>
    IF call.arg = 0
      THEN call.result = 0
      ELSE call.result = calculateTotalXPToLevel(call.arg - 1)
                           + calculateXPForLevel(call.arg)

C4_Witness ==
  /\ call.fn = "calculateTotalXPToLevel"
  /\ call.arg = MaxLevel
  /\ call.result > calculateTotalXPToLevel(call.arg - 1)

---------------------------------------------------------------------------
(* Properties of the seeded roller, under SpecRoll. *)

EdgeRolls == {0, 1, RollScale \div 2, RollScale - 1}

(* C10: under {first: 1.0} rollPlacement returns first for every seed (any *)
(* fraction in [0,1)), and under {participation: 1.0} it returns           *)
(* participation for every seed.                                           *)
C10_DegenerateDistribution ==
  /\ call.fn = "rollPlacement" =>
        /\ (call.profile = "wins-everything" => call.result = "first")
        /\ (call.profile = "looser" => call.result = "participation")
  /\ selectedProfile = "wins-everything" =>
        \A r \in EdgeRolls : placementOfRoll(r) = "first"
  /\ selectedProfile = "looser" =>
        \A r \in EdgeRolls : placementOfRoll(r) = "participation"

C10_Witness ==
  /\ call.fn = "rollPlacement"
  /\ prevCall.fn = "rollPlacement"
  /\ call.profile = "looser"
  /\ call.result = "participation"
  /\ seedRandom(call.arg) = 0
  /\ prevCall.profile = "wins-everything"
  /\ prevCall.result = "first"
  /\ seedRandom(prevCall.arg) > RollScale \div 2

---------------------------------------------------------------------------
(* Properties of the year simulation, under SpecSim. *)

AllSchedulesZero == dailyGames = 0 /\ weeklyGames = 0 /\ monthlyGames = 0

(* The points the day loop awards on day d, recomputed from the day alone: *)
(* the week and month counters before day d are the completion days        *)
(* before it.                                                              *)
PointsAwardedOnDay(d) ==
  dailyContribution(d) + weeklyContribution(d, (d - 1) \div 7)
    + monthlyContribution(d, (d - 1) \div 30)

PointsBeforeDay(d) == IF d = 1 THEN 0 ELSE dailyPointsData[d - 1]

(* The statement of C5 as written: with all schedule counts 0 the series   *)
(* has 365 entries, the cumulative points are 0 on every day and the level *)
(* is 1 on every day.                                                      *)
C5_Original_LevelOneThroughout ==
  (AllSchedulesZero /\ pc = "done") =>
    /\ Len(dailyPointsData) = DaysInYear
    /\ Len(dailyLevelsData) = DaysInYear
    /\ \A d \in 1..DaysInYear : dailyPointsData[d] = 0 /\ dailyLevelsData[d] = 1

(* C5, amended: with all schedule counts 0 the series has exactly 365      *)
(* entries, the cumulative points are 0 on every day and the level is the  *)
(* same on every day, the level of 0 XP, which is 0.                       *)
C5_ZeroScheduleZeroSeries ==
  AllSchedulesZero =>
    /\ \A d \in 1..Len(dailyPointsData) : dailyPointsData[d] = 0
    /\ \A d \in 1..Len(dailyLevelsData) :
          dailyLevelsData[d] = calculateLevelFromXP(0) /\ dailyLevelsData[d] = 0
    /\ pc = "done" =>
          Len(dailyPointsData) = DaysInYear /\ Len(dailyLevelsData) = DaysInYear

C5_Witness ==
  /\ AllSchedulesZero
  /\ pc = "done"
  /\ Len(dailyLevelsData) = DaysInYear
  /\ dailyLevelsData[DaysInYear] = 0

(* C6: for every day d in 1..365 the cumulative points of day d are those  *)
(* of day d - 1 (0 before day 1) plus the points awarded on day d, the     *)
(* level of day d is calculateLevelFromXP of its cumulative points, and    *)
(* both series have exactly 365 entries when the loop is done.             *)
C6_RunningTotalAndLevel ==
  /\ Len(dailyPointsData) = day
  /\ Len(dailyLevelsData) = day
  /\ pc = "done" => day = DaysInYear
  /\ day >= 1 => cumulativePoints = dailyPointsData[day]
  /\ \A d \in 1..day :
        (d = day \/ pc = "done") =>
          /\ dailyPointsData[d] = PointsBeforeDay(d) + PointsAwardedOnDay(d)
          /\ dailyLevelsData[d] = calculateLevelFromXP(dailyPointsData[d])

C6_Witness ==
  /\ pc = "done"
  /\ Len(dailyPointsData) = DaysInYear
  /\ dailyGames > 0 /\ weeklyGames > 0 /\ monthlyGames > 0
  /\ selectedProfile = "average"
  /\ dailyPointsData[DaysInYear] > dailyPointsData[DaysInYear - 5]
  /\ dailyLevelsData[DaysInYear] > dailyLevelsData[30]

WeeklyOnlyAllFirst ==
  /\ selectedProfile = "wins-everything"
  /\ weeklyGames = 1
  /\ dailyGames = 0
  /\ monthlyGames = 0

(* C7: with weeklyGames = 1, no daily or monthly games and distribution    *)
(* {first: 1.0}, every day divisible by 7 adds exactly one first-place     *)
(* outcome scaled by the weekly duration, firstPlacePointsPerDay * 7, and  *)
(* every other day adds nothing.                                           *)
C7_WeeklyOneFirstPlaceGame ==
  (WeeklyOnlyAllFirst /\ day >= 1) =>
    /\ totalDailyPoints = IF day % 7 = 0 THEN firstPlacePointsPerDay * 7 ELSE 0
    /\ dailyPointsData[day] - PointsBeforeDay(day) =
          IF day % 7 = 0 THEN firstPlacePointsPerDay * 7 ELSE 0
    /\ dailyPointsData[day] = (day \div 7) * firstPlacePointsPerDay * 7

C7_Witness ==
  /\ WeeklyOnlyAllFirst
  /\ pc = "done"
  /\ dailyPointsData[DaysInYear] = 52 * firstPlacePointsPerDay * 7
  /\ dailyPointsData[7] = firstPlacePointsPerDay * 7
  /\ dailyPointsData[6] = 0

DailyOnlyAllFirst ==
  /\ selectedProfile = "wins-everything"
  /\ dailyGames = 1
  /\ weeklyGames = 0
  /\ monthlyGames = 0
  /\ firstPlacePointsPerDay = 5

(* The sum over days 1..n of round(1 * 5/7 * seasonal * variation) * 5. *)
RECURSIVE ExpectedDailyRange(_, _)
ExpectedDailyRange(lo, hi) ==
  IF lo > hi THEN 0
  ELSE IF lo = hi
    THEN MathRound(1 * 5 * getSeasonalMultiplier(monthOfDay(lo)) * getDailyVariation(lo),
                   7 * SeasonScale * VarScale) * 5
  ELSE ExpectedDailyRange(lo, (lo + hi) \div 2)
         + ExpectedDailyRange(((lo + hi) \div 2) + 1, hi)

ExpectedDailySum(n) == ExpectedDailyRange(1, n)

(* C8: with distribution {first: 1.0}, dailyGames = 1, no weekly or        *)
(* monthly games and 5 first-place points, the cumulative points of day    *)
(* 365 are the sum over the days of round(1 * 5/7 * seasonal * variation)  *)
(* * 5: the whole effective count of each day is in the first-place        *)
(* bucket.                                                                 *)
C8_DailyAllFirstYearTotal ==
  (DailyOnlyAllFirst /\ day >= 1) =>
    /\ dailyPointsData[day] = ExpectedDailySum(day)
    /\ pc = "done" => dailyPointsData[DaysInYear] = ExpectedDailySum(DaysInYear)

C8_Witness ==
  /\ DailyOnlyAllFirst
  /\ pc = "done"
  /\ dailyPointsData[DaysInYear] = 1520
  /\ \E d \in 1..DaysInYear : dailyPointsData[d] = PointsBeforeDay(d)

---------------------------------------------------------------------------
(* Properties of the markers against the simulated games, under SpecSim.   *)

(* The games the simulator has rolled one by one. *)
Rolled == {rolledGames[i] : i \in 1..Len(rolledGames)}

(* The key a marker of the rolled game r would have. *)
MarkerKey(r) ==
  IF r.cadence = "weekly" THEN weeklyKey(r.day, r.gameIndex)
  ELSE monthlyKey(r.day, r.gameIndex)

(* The seed of game gameIndex of completion day d, from the day alone. *)
SeedOfDay(cadence, d, gameIndex) ==
  IF cadence = "weekly"
    THEN ((d \div 7) * 1000) + gameIndex + weeklySeedOffset
    ELSE ((d \div 30) * 10000) + gameIndex + monthlySeedOffset

WeeklyDays == {7 * k : k \in 1..52}

MonthlyDays == {30 * k : k \in 1..12}

(* C11: for every cadence, completion day d and gameIndex that both the    *)
(* simulator and the marker generator roll, the seed (occurrence index     *)
(* d/7 times 1000, or d/30 times 10000, plus gameIndex plus the profile    *)
(* offset) is the same in both, and so is the placement: the marker's      *)
(* colour and letter are those of the placement the simulator awarded.     *)
C11_SameSeedSamePlacement ==
  pc = "rendered" =>
    \A r \in Rolled :
      MarkerKey(r) \in DOMAIN annotations =>
        LET marker == annotations[MarkerKey(r)]
        IN  /\ marker.seed = r.seed
            /\ marker.seed = SeedOfDay(r.cadence, r.day, r.gameIndex)
            /\ marker.borderColor = getPlacementColor(r.placement)
            /\ marker.content = placementInitial(r.placement)
            /\ marker.xMin = r.day - 1

C11_Witness ==
  /\ pc = "rendered"
  /\ selectedProfile = "average"
  /\ \E r \in Rolled :
        /\ r.cadence = "weekly" /\ r.day = 364 /\ r.gameIndex = 1
        /\ MarkerKey(r) \in DOMAIN annotations
        /\ annotations[MarkerKey(r)].seed = 52004
  /\ \E r \in Rolled :
        /\ r.cadence = "monthly" /\ r.day = 360
        /\ MarkerKey(r) \in DOMAIN annotations
        /\ annotations[MarkerKey(r)].seed = 120300
  /\ \E r1, r2 \in Rolled :
        /\ r1.placement # r2.placement
        /\ MarkerKey(r1) \in DOMAIN annotations
        /\ MarkerKey(r2) \in DOMAIN annotations

(* C12: every marker corresponds to a game the simulator counted: for      *)
(* every marker (cadence, day, gameIndex) the simulator rolled that game   *)
(* on that day and added its points.                                       *)
C12_EveryMarkerCounted ==
  pc = "rendered" =>
    \A key \in DOMAIN annotations :
      \E r \in Rolled :
        /\ MarkerKey(r) = key
        /\ r.day = annotations[key].xMin + 1
        /\ dailyPointsData[r.day] - PointsBeforeDay(r.day) >= r.gamePoints

(* C13: the generator rolls weeklyGames games on each of the 52 days       *)
(* divisible by 7 and monthlyGames games on each of the 12 days divisible  *)
(* by 30: it emits 52 * weeklyGames + 12 * monthlyGames markers, each      *)
(* under its own key of cadence, day and gameIndex.                        *)
C13_MarkerCount ==
  pc = "rendered" =>
    /\ Cardinality(DOMAIN annotations) = (52 * weeklyGames) + (12 * monthlyGames)
    /\ DOMAIN annotations =
          {weeklyKey(d, g) : d \in WeeklyDays, g \in 0..(weeklyGames - 1)}
            \cup {monthlyKey(d, g) : d \in MonthlyDays, g \in 0..(monthlyGames - 1)}
    /\ \A d \in WeeklyDays : \A g \in 0..(weeklyGames - 1) :
          annotations[weeklyKey(d, g)] = weeklyAnnotation(d, d \div 7, g)
    /\ \A d \in MonthlyDays : \A g \in 0..(monthlyGames - 1) :
          annotations[monthlyKey(d, g)] = monthlyAnnotation(d, d \div 30, g)

C13_Witness ==
  /\ pc = "rendered"
  /\ weeklyGames = 2
  /\ monthlyGames = 2
  /\ Cardinality(DOMAIN annotations) = 128
  /\ "weekly_364_1" \in DOMAIN annotations
  /\ "monthly_360_1" \in DOMAIN annotations
  /\ "weekly_210_0" \in DOMAIN annotations
  /\ "monthly_210_0" \in DOMAIN annotations

(* The games of a cadence the simulator rolled on day d. *)
GamesOfDay(cadence, d) == {r \in Rolled : r.cadence = cadence /\ r.day = d}

(* C14: on every weekly completion day the simulator awards points for     *)
(* exactly weeklyGames games, and on every monthly completion day for      *)
(* exactly monthlyGames games.                                             *)
C14_AllScheduledGamesAwarded ==
  (day >= 1 /\ pc = "loop") =>
    /\ day % 7 = 0 => Cardinality(GamesOfDay("weekly", day)) = weeklyGames
    /\ day % 30 = 0 => Cardinality(GamesOfDay("monthly", day)) = monthlyGames

---------------------------------------------------------------------------
(* Properties of the yearly figures and of the awarded points, under       *)
(* SpecSim.                                                                *)

(* C18: when totalGamesPerYear is 0, avgPointsPerGame is 0, not NaN or     *)
(* Infinity.                                                               *)
C18_AvgPointsPerGameZero ==
  (pc = "done" /\ totalGamesPerYear = 0) =>
    (avgPointsPerGame.kind = "finite" /\ avgPointsPerGame.value = 0)

PlacementPointsPerDay(placement) ==
  CASE placement = "first" -> firstPlacePointsPerDay
    [] placement = "second" -> secondPlacePointsPerDay
    [] placement = "third" -> thirdPlacePointsPerDay

DurationOf(cadence) == IF cadence = "weekly" THEN 7 ELSE 30

RECURSIVE SumGamePoints(_)
SumGamePoints(games) ==
  IF games = {} THEN 0
  ELSE LET r == CHOOSE g \in games : TRUE
       IN  r.gamePoints + SumGamePoints(games \ {r})

(* The points of the daily games of day d: the effective count is split    *)
(* into floor(n * p) first, second and third places, the rest              *)
(* participation, each game one day long.                                  *)
DailySplitPoints(d) ==
  IF dailyGames = 0 THEN 0
  ELSE LET n == adjustedDailyGames(d)
           firsts == (n * placementDistribution.first) \div RollScale
           seconds == (n * placementDistribution.second) \div RollScale
           thirds == (n * placementDistribution.third) \div RollScale
           rest == n - firsts - seconds - thirds
       IN  (firsts * firstPlacePointsPerDay) + (seconds * secondPlacePointsPerDay)
             + (thirds * thirdPlacePointsPerDay) + (rest * participationPointsPerDay)

(* C19: participation points never scale with duration: a weekly or        *)
(* monthly game rolled as participation adds exactly                       *)
(* participationPointsPerDay and each game of the daily participation      *)
(* bucket adds the same, while first, second and third place add their     *)
(* per-day points times the duration (1, 7 or 30).                         *)
C19_ParticipationUnscaled ==
  day >= 1 =>
    LET games == GamesOfDay("weekly", day) \cup GamesOfDay("monthly", day)
    IN  /\ \A r \in games :
              r.gamePoints =
                IF r.placement = "participation" THEN participationPointsPerDay
                ELSE PlacementPointsPerDay(r.placement) * DurationOf(r.cadence)
        /\ totalDailyPoints = DailySplitPoints(day) + SumGamePoints(games)

C19_Witness ==
  /\ pc = "done"
  /\ selectedProfile = "average"
  /\ dailyGames > 0
  /\ \E r \in Rolled :
        /\ r.cadence = "weekly" /\ r.placement = "participation"
        /\ r.gamePoints = participationPointsPerDay
  /\ \E r \in Rolled :
        /\ r.cadence = "monthly" /\ r.placement = "participation"
        /\ r.gamePoints = participationPointsPerDay
  /\ \E r \in Rolled :
        /\ r.cadence = "weekly" /\ r.placement = "second"
        /\ r.gamePoints = secondPlacePointsPerDay * 7
  /\ \E r \in Rolled :
        /\ r.cadence = "monthly" /\ r.placement = "first"
        /\ r.gamePoints = firstPlacePointsPerDay * 30

---------------------------------------------------------------------------
(* Properties of the debounce, under SpecDebounce and FairSpecDebounce.    *)

(* The coefficients a pending timer will apply. *)
CapturedBy(t) == [a |-> t.a, b |-> t.b, c |-> t.c, multiplier |-> t.multiplier]

(* A step in which a timer callback runs. *)
CallbackRuns == burstUpdates' = burstUpdates + 1

(* C15: a burst of coefficient edits, each made before the timer of the    *)
(* previous one has fired, causes exactly one update of the debounced      *)
(* coefficients: it is made by the timer of the last edit once its 300 ms  *)
(* have passed, it sets all four debounced coefficients to the latest      *)
(* edited values, and no superseded value is ever applied.                 *)
C15_Coalesced ==
  /\ [](/\ burstUpdates <= 1
        /\ (timeouts = {} =>
              (burstUpdates = 1 /\ DebouncedCoefficients = Coefficients))
        /\ \A t \in timeouts :
              (CapturedBy(t) = Coefficients /\ t.id = timeout /\ burstUpdates = 0))
  /\ [][(CallbackRuns =>
            (/\ \E t \in timeouts : t.remaining = 0 /\ t.id = timeout
             /\ DebouncedCoefficients' = Coefficients
             /\ Coefficients' = Coefficients
             /\ timeouts' = {}))
         /\ (DebouncedCoefficients' # DebouncedCoefficients => CallbackRuns)]_vars

C15_Witness ==
  /\ timeouts = {}
  /\ burstEdits >= 2
  /\ burstUpdates = 1
  /\ DebouncedCoefficients = Coefficients
  /\ DebouncedCoefficients # InitialCoefficients

C17_ImmediateInputs ==
  [][configVars' # configVars =>
       /\ timeouts' = timeouts
       /\ timeout' = timeout
       /\ isCalculating' = isCalculating
       /\ DebouncedCoefficients' = DebouncedCoefficients
       /\ Coefficients' = Coefficients
       /\ chartInputs'.selectedProfile = selectedProfile'
       /\ chartInputs'.dailyGames = dailyGames'
       /\ chartInputs'.weeklyGames = weeklyGames'
       /\ chartInputs'.monthlyGames = monthlyGames'
       /\ chartInputs'.firstPlacePointsPerDay = firstPlacePointsPerDay'
       /\ chartInputs'.secondPlacePointsPerDay = secondPlacePointsPerDay'
       /\ chartInputs'.thirdPlacePointsPerDay = thirdPlacePointsPerDay'
       /\ chartInputs'.participationPointsPerDay = participationPointsPerDay'
       /\ chartInputs'.a = debouncedPolyA
       /\ chartInputs'.multiplier = debouncedPolyMultiplier]_vars

C17_Witness ==
  /\ edits = 2
  /\ weeklyGames = 0
  /\ participationPointsPerDay = 0
  /\ chartInputs.weeklyGames = 0
  /\ chartInputs.participationPointsPerDay = 0
  /\ isCalculating = TRUE
  /\ timeout = 1
  /\ \E t \in timeouts : t.id = 1 /\ t.remaining = 100

---------------------------------------------------------------------------
(* Properties of the daily split, under SpecSplit. *)

(* The buckets of the call in progress. *)
CallBuckets == placementGames(call.arg.gameCount, call.arg.distribution)

(* C21: for every count n >= 0 and every distribution, the first, second   *)
(* and third buckets are floor(n * probability), the participation bucket  *)
(* is the remainder, the four buckets are >= 0 and sum to n, and at        *)
(* duration 1 the points are the buckets times the points per placement.   *)
C21_SplitBuckets ==
  call.fn = "calculateGameTypePoints" =>
    LET n == call.arg.gameCount
        distribution == call.arg.distribution
        games == CallBuckets
    IN  /\ \A pl \in {"first", "second", "third"} :
              /\ games[pl] * RollScale <= n * distribution[pl]
              /\ n * distribution[pl] < (games[pl] + 1) * RollScale
        /\ games.participation = n - games.first - games.second - games.third
        /\ \A pl \in Placements : games[pl] >= 0
        /\ games.first + games.second + games.third + games.participation = n
        /\ call.arg.gameDuration = 1 =>
              call.result = (games.first * firstPlacePointsPerDay * 1)
                              + (games.second * secondPlacePointsPerDay * 1)
                              + (games.third * thirdPlacePointsPerDay * 1)
                              + (games.participation * participationPointsPerDay)

C21_Witness ==
  /\ call.fn = "calculateGameTypePoints"
  /\ call.arg.gameCount = 7
  /\ call.arg.distribution = playerProfiles["average"]
  /\ call.arg.gameDuration = 1
  /\ CallBuckets = [first |-> 1, second |-> 1, third |-> 2, participation |-> 3]
  /\ firstPlacePointsPerDay = 3
  /\ secondPlacePointsPerDay = 1
  /\ thirdPlacePointsPerDay = 1
  /\ participationPointsPerDay = 1
  /\ call.result = 9

(* C27: in the daily split a placement whose probability is 0 receives no  *)
(* games; in particular the participation bucket is 0 whenever the         *)
(* participation probability is 0.                                         *)
C27_ZeroProbabilityNoGames ==
  call.fn = "calculateGameTypePoints" =>
    \A pl \in Placements :
      call.arg.distribution[pl] = 0 => CallBuckets[pl] = 0

---------------------------------------------------------------------------
(* More properties of the level curve, under SpecCurve. *)

(* The polynomial value p = (a * level^2 + b * level + c) * multiplier of  *)
(* a level, as the numerator of a fraction over CoefScale * MultScale.     *)
PolynomialValue(level) ==
  ((debouncedPolyA * level * level) + (debouncedPolyB * level) + debouncedPolyC)
    * debouncedPolyMultiplier

(* floor(max(1, p)) *)
FloorOfClamped(level) ==
  MathFloor(Max(CoefScale * MultScale, PolynomialValue(level)), CoefScale * MultScale)

(* C22: the clamp max(1, floor(p)) of calculateXPForLevel returns the      *)
(* value of floor(max(1, p)) for every polynomial value p, positive, zero  *)
(* or negative.                                                            *)
C22_ClampOrderIrrelevant ==
  /\ call.fn = "calculateXPForLevel" => call.result = FloorOfClamped(call.arg)
  /\ \A level \in 1..MaxLevel : calculateXPForLevel(level) = FloorOfClamped(level)

C22_Witness ==
  /\ call.fn = "calculateXPForLevel"
  /\ PolynomialValue(call.arg) > 0
  /\ PolynomialValue(call.arg) < CoefScale * MultScale
  /\ call.result = 1
  /\ \E level \in 1..MaxLevel : PolynomialValue(level) < 0
  /\ \E level \in 1..MaxLevel : PolynomialValue(level) = 0

(* C23: for every totalXP >= 0 and every coefficient set, monotonic or     *)
(* not, calculateXPProgress returns 0 <= xpInLevel < xpNeededForNext, so   *)
(* progressPercent is at least 0 and below 100.                            *)
C23_ProgressBelowHundred ==
  (call.fn = "calculateXPProgress" /\ call.arg >= 0) =>
    /\ 0 <= call.result.xpInLevel
    /\ call.result.xpInLevel < call.result.xpNeededForNext
    /\ 0 <= call.result.progressPercent.num
    /\ call.result.progressPercent.num < 100 * call.result.progressPercent.den

C23_Witness ==
  /\ call.fn = "calculateXPProgress"
  /\ call.result.currentLevel >= 1
  /\ call.result.xpInLevel > 0
  /\ call.result.xpNeededForNext < calculateXPForLevel(call.result.currentLevel)
  /\ call.result.xpInLevel = call.result.xpNeededForNext - 1

---------------------------------------------------------------------------
(* Properties of the scan of calculateLevelFromXP, under FairSpecScan. *)

(* C24: calculateLevelFromXP terminates for every totalXP and every        *)
(* coefficient set: its loop runs at most max(0, totalXP) iterations, and  *)
(* the level L it returns satisfies 0 <= L <= max(0, totalXP).             *)
C24_ScanTerminates ==
  /\ [](levelScan.iterations <= Max(0, levelScan.totalXP))
  /\ [](levelScan.pc = "returned" =>
          /\ 0 <= levelScan.result
          /\ levelScan.result <= Max(0, levelScan.totalXP)
          /\ levelScan.result = levelScan.iterations
          /\ levelScan.result = calculateLevelFromXP(levelScan.totalXP))
  /\ (levelScan.pc = "while") ~> (levelScan.pc = "returned")

C24_Witness ==
  /\ levelScan.pc = "returned"
  /\ levelScan.totalXP = MaxXP
  /\ levelScan.result = MaxXP
  /\ levelScan.iterations = MaxXP
  /\ debouncedPolyA < 0

---------------------------------------------------------------------------
(* More properties of the series and of the yearly figures, under SpecSim. *)

(* C25: finalLevel equals the level stored for day 365 in the level series *)
(* and equals the currentLevel of the progress of totalPointsPerYear, for  *)
(* every configuration, also when the year ends with 0 completed levels.   *)
C25_FinalLevelIsLastLevel ==
  pc = "done" =>
    /\ finalLevel = dailyLevelsData[365]
    /\ finalLevel = levelProgress.currentLevel

---------------------------------------------------------------------------
(* Properties of the series under several level curves, under SpecYear. *)

NonNegativeInputs ==
  /\ dailyGames >= 0 /\ weeklyGames >= 0 /\ monthlyGames >= 0
  /\ firstPlacePointsPerDay >= 0 /\ secondPlacePointsPerDay >= 0
  /\ thirdPlacePointsPerDay >= 0 /\ participationPointsPerDay >= 0

(* C26: when the points per placement and the schedule counts are          *)
(* non-negative, the cumulative points and the level do not decrease from  *)
(* one day to the next over days 1..365, for any coefficient set.          *)
C26_SeriesNonDecreasing ==
  NonNegativeInputs =>
    \A d \in 2..Len(dailyPointsData) :
      /\ dailyPointsData[d - 1] <= dailyPointsData[d]
      /\ dailyLevelsData[d - 1] <= dailyLevelsData[d]

C26_Witness ==
  /\ pc = "done"
  /\ NonNegativeInputs
  /\ calculateXPForLevel(2) < calculateXPForLevel(1)
  /\ calculateXPForLevel(11) < calculateXPForLevel(12)
  /\ dailyLevelsData[DaysInYear] > 12
  /\ dailyLevelsData[DaysInYear] > dailyLevelsData[200]
  /\ dailyLevelsData[200] > dailyLevelsData[100]
  /\ dailyLevelsData[100] > 0
  /\ \E d \in 2..DaysInYear :
        /\ dailyPointsData[d - 1] < dailyPointsData[d]
        /\ dailyLevelsData[d - 1] = dailyLevelsData[d]

---------------------------------------------------------------------------
(* Properties of the seed formulas, under SpecSeeds. *)

(* C28: within one profile and with weeklyGames in 0..50 and monthlyGames  *)
(* in 0..20, no two different games of the year, weekly or monthly, get    *)
(* the same seed, in the day loop and in the marker generator.             *)
C28_SeedsDistinct ==
  /\ Cardinality({SimulatorSeed(t) : t \in SimulatorTriples})
       = Cardinality(SimulatorTriples)
  /\ Cardinality({AnnotationSeed(t) : t \in AnnotationTriples})
       = Cardinality(AnnotationTriples)
  /\ call.fn = "chartData seed" =>
       \A t \in SimulatorTriples : t # call.arg => SimulatorSeed(t) # call.result
  /\ call.fn = "generateGameAnnotations seed" =>
       \A t \in AnnotationTriples : t # call.arg => AnnotationSeed(t) # call.result

C28_Witness ==
  /\ weeklyGames = WeeklyGamesInputMax
  /\ monthlyGames = MonthlyGamesInputMax
  /\ selectedProfile = "looser"
  /\ call.fn = "chartData seed"
  /\ call.arg.cadence = "weekly"
  /\ call.arg.occurrence = 1
  /\ call.arg.gameIndex > WeeklyGamesInputMax
  /\ [cadence |-> "monthly", occurrence |-> 1, gameIndex |-> 23] \in SimulatorTriples
  /\ Cardinality(SimulatorTriples) > WeeksInYear * (WeeklyGamesInputMax \div 2)
  /\ Cardinality(AnnotationTriples)
       = (WeeksInYear * WeeklyGamesInputMax) + (MonthsInYear * MonthlyGamesInputMax)

---------------------------------------------------------------------------
(* More properties of the debounce, under SpecDebounce. *)

(* The handles of a set of timers. *)
Handles(pending) == {t.id : t \in pending}

(* C29: at most one debounce timer is pending at any time; a coefficient   *)
(* edit cancels the pending timer before it sets a new one, so a           *)
(* superseded timer never fires: the debounced coefficients are written    *)
(* and the calculating flag is cleared only by the timer of the latest     *)
(* edit, with its values and with no timer left pending.                   *)
C29_OneTimerPending ==
  /\ [](Cardinality(timeouts) <= 1 /\ Handles(timeouts) \subseteq {timeout})
  /\ [][((timeout' # timeout) =>
            (/\ Handles(timeouts') = {timeout'}
             /\ ~CallbackRuns
             /\ DebouncedCoefficients' = DebouncedCoefficients
             /\ isCalculating' = TRUE))
         /\ ((DebouncedCoefficients' # DebouncedCoefficients
                \/ (isCalculating /\ ~isCalculating')) =>
               (/\ Handles(timeouts) = {timeout}
                /\ timeouts' = {}
                /\ DebouncedCoefficients' = Coefficients))]_vars

C29_Witness ==
  /\ timeout = 3
  /\ Handles(timeouts) = {3}
  /\ \E t \in timeouts : t.remaining = 100 /\ CapturedBy(t) = Coefficients
  /\ burstEdits = 2
  /\ burstUpdates = 0
  /\ isCalculating = TRUE
  /\ DebouncedCoefficients = InitialCoefficients
  /\ polyA # InitialCoefficients.a
  /\ polyB # InitialCoefficients.b

====
